---- MODULE Spec2Model ----
(***************************************************************************)
(* A model of the tool-using agent loop (src/main.py) and of its SQLite    *)
(* conversation / memory store (src/storage.py).                           *)
(*                                                                         *)
(* Python strings are TLA+ strings (TLC evaluates Len, SubSeq and \o on    *)
(* them).  Every other Python value is a record of one shape,              *)
(* [t, s, n, items], so that two values of different Python types can be   *)
(* compared.                                                               *)
(***************************************************************************)
EXTENDS Integers, Sequences, FiniteSets, TLC

(***************************************************************************)
(* Python values.                                                          *)
(***************************************************************************)
PyStr(x) == [t |-> "str", s |-> x, n |-> 0, items |-> <<>>]
PyInt(k) == [t |-> "int", s |-> "", n |-> k, items |-> <<>>]
\* A float is kept as the text that denotes it: the model never computes with one.
PyFloat(lex) == [t |-> "float", s |-> lex, n |-> 0, items |-> <<>>]
PyBool(b) == [t |-> "bool", s |-> "", n |-> IF b THEN 1 ELSE 0, items |-> <<>>]
PyNone == [t |-> "none", s |-> "", n |-> 0, items |-> <<>>]
PyList(xs) == [t |-> "list", s |-> "", n |-> 0, items |-> xs]
\* A dict is its items in insertion order, each [k |-> key, v |-> value].
PyDict(kvs) == [t |-> "dict", s |-> "", n |-> 0, items |-> kvs]
\* An object of the Anthropic SDK (a content block): its fields, in the order
\* model_dump() gives them.  hasattr(x, 'model_dump') is x.t = "obj".
PyObj(kvs) == [t |-> "obj", s |-> "", n |-> 0, items |-> kvs]
KV(key, val) == [k |-> key, v |-> val]

HasKey(d, key) == \E i \in 1..Len(d.items) : d.items[i].k = key
\* dict.get(key, default); also getattr of an SDK object
DictGet(d, key, default) ==
    IF HasKey(d, key)
    THEN d.items[CHOOSE i \in 1..Len(d.items) : d.items[i].k = key].v
    ELSE default
\* d[key] = val on the items of a dict: an existing key keeps its place
DictSet(kvs, key, val) ==
    IF \E i \in 1..Len(kvs) : kvs[i].k = key
    THEN [i \in 1..Len(kvs) |-> IF kvs[i].k = key THEN KV(key, val) ELSE kvs[i]]
    ELSE Append(kvs, KV(key, val))
model_dump(o) == PyDict(o.items)

(***************************************************************************)
(* Characters.                                                             *)
(***************************************************************************)
Ch(s, i) == IF i >= 1 /\ i <= Len(s) THEN SubSeq(s, i, i) ELSE ""
StartsWith(s, i, lit) ==
    /\ i >= 1
    /\ i + Len(lit) - 1 <= Len(s)
    /\ SubSeq(s, i, i + Len(lit) - 1) = lit
\* the member of a set of one: Only({F(x) : x \in {e}}) is F of the value of e,
\* with e evaluated once however often F uses x
Only(S) == CHOOSE x \in S : TRUE
\* the sequence f with its elements evaluated
List(f) == f \o <<>>
\* the least and the greatest member of a non-empty set of integers
MinOf(S) == Only({CHOOSE x \in T : \A y \in T : x <= y : T \in {S}})
MaxOf(S) == Only({CHOOSE x \in T : \A y \in T : x >= y : T \in {S}})
\* the first place from i on where s has a character of cs, 0 if it has none;
\* looked for eight places at a time
RECURSIVE FirstOf(_, _, _)
FirstOf(s, i, cs) ==
    IF i > Len(s) THEN 0
    ELSE LET found == {j \in i..(i + 7) : Ch(s, j) \in cs}
         IN  IF found # {} THEN MinOf(found) ELSE FirstOf(s, i + 8, cs)
\* the maximal runs of characters of the set cs (member = TRUE) or of
\* characters outside it (member = FALSE), left to right
Runs(str, cs, member) ==
    LET Nth(S, k) == CHOOSE x \in S : Cardinality({y \in S : y < x}) = k - 1
        In(c) == (c \in cs) = member
    IN  Only({
            Only({List([k \in 1..Cardinality(starts) |-> SubSeq(s, Nth(starts, k), Nth(ends, k))])
                  : starts \in {{i \in 1..Len(s) : In(Ch(s, i)) /\ (i = 1 \/ ~In(Ch(s, i - 1)))}},
                    ends \in {{i \in 1..Len(s) : In(Ch(s, i)) /\ (i = Len(s) \/ ~In(Ch(s, i + 1)))}}})
            : s \in {str}})
\* s.lstrip(cs), s.rstrip(cs), s.strip(cs) for a set cs of characters
\* the places of s where a character that is not of cs stands
Kept(s, cs) == {i \in 1..Len(s) : Ch(s, i) \notin cs}
LStripChars(str, cs) ==
    Only({Only({IF keep = {} THEN "" ELSE SubSeq(s, MinOf(keep), Len(s))
                : keep \in {Kept(s, cs)}})
          : s \in {str}})
RStripChars(str, cs) ==
    Only({Only({IF keep = {} THEN "" ELSE SubSeq(s, 1, MaxOf(keep))
                : keep \in {Kept(s, cs)}})
          : s \in {str}})
StripChars(s, cs) == RStripChars(LStripChars(s, cs), cs)
\* the characters of a string, as a set
CharsOf(s) == {SubSeq(s, i, i) : i \in 1..Len(s)}
\* the character of string "to" at the place c has in string "from"
Translate(from, to, c) == Ch(to, CHOOSE i \in 1..Len(from) : SubSeq(from, i, i) = c)
DigitChars == "0123456789"
DigitSet == CharsOf(DigitChars)
DigitValOf == [c \in DigitSet |-> (CHOOSE i \in 1..10 : SubSeq(DigitChars, i, i) = c) - 1]
IsDigit(c) == c \in DigitSet
DigitVal(c) == DigitValOf[c]
RECURSIVE NatToStr(_)
NatToStr(k) == IF k < 10 THEN Ch(DigitChars, k + 1) ELSE NatToStr(k \div 10) \o Ch(DigitChars, (k % 10) + 1)
\* str(k) of a Python int
IntToStr(k) == IF k < 0 THEN "-" \o NatToStr(-k) ELSE NatToStr(k)
RECURSIVE StrToNat(_, _)
StrToNat(s, acc) == IF s = "" THEN acc ELSE StrToNat(Tail(s), acc * 10 + DigitVal(Head(s)))

\* The characters outside ASCII that the model's strings use, each with the four
\* hex digits json.dumps (ensure_ascii) writes for it.
NonAsciiChars == <<"á", "é", "í", "ó", "ú", "ñ", "Á", "É", "Í", "Ó", "Ú", "Ñ", "¿", "¡">>
NonAsciiHex == <<"00e1", "00e9", "00ed", "00f3", "00fa", "00f1", "00c1", "00c9", "00cd", "00d3", "00da", "00d1", "00bf", "00a1">>
NonAsciiSet == {NonAsciiChars[i] : i \in 1..Len(NonAsciiChars)}
IsNonAscii(c) == c \in NonAsciiSet
HexOf(c) == NonAsciiHex[CHOOSE i \in 1..Len(NonAsciiChars) : NonAsciiChars[i] = c]

(***************************************************************************)
(* json.dumps with its defaults: ", " and ": " separators, ensure_ascii.    *)
(***************************************************************************)
JsonEscapeChar(c) ==
    CASE c = "\"" -> "\\\""
      [] c = "\\" -> "\\\\"
      [] c = "\n" -> "\\n"
      [] c = "\r" -> "\\r"
      [] c = "\t" -> "\\t"
      [] c = "\f" -> "\\f"
      [] IsNonAscii(c) -> "\\u" \o HexOf(c)
      [] OTHER -> c
\* every character of s[lo..hi] escaped, the string taken by halves
RECURSIVE JsonEscapeRange(_, _, _)
JsonEscapeRange(s, lo, hi) ==
    IF lo > hi THEN ""
    ELSE IF lo = hi THEN JsonEscapeChar(Ch(s, lo))
    ELSE JsonEscapeRange(s, lo, (lo + hi) \div 2) \o JsonEscapeRange(s, ((lo + hi) \div 2) + 1, hi)
JsonEscape(str) == Only({JsonEscapeRange(s, 1, Len(s)) : s \in {str}})
JsonQuote(s) == "\"" \o JsonEscape(s) \o "\""

RECURSIVE json_dumps(_)
RECURSIVE DumpItems(_, _)
RECURSIVE DumpPairs(_, _)
DumpItems(xs, i) ==
    IF i > Len(xs) THEN ""
    ELSE (IF i > 1 THEN ", " ELSE "") \o json_dumps(xs[i]) \o DumpItems(xs, i + 1)
DumpPairs(kvs, i) ==
    IF i > Len(kvs) THEN ""
    ELSE (IF i > 1 THEN ", " ELSE "") \o JsonQuote(kvs[i].k) \o ": "
         \o json_dumps(kvs[i].v) \o DumpPairs(kvs, i + 1)
json_dumps(v) ==
    CASE v.t = "str" -> JsonQuote(v.s)
      [] v.t = "int" -> IntToStr(v.n)
      [] v.t = "float" -> v.s
      [] v.t = "bool" -> IF v.n = 1 THEN "true" ELSE "false"
      [] v.t = "none" -> "null"
      [] v.t = "list" -> "[" \o DumpItems(v.items, 1) \o "]"
      [] v.t = "dict" -> "{" \o DumpPairs(v.items, 1) \o "}"

(***************************************************************************)
(* json.loads: Python's decoder, a recursive descent over the text.  A      *)
(* result is [ok, v, i]: whether a value was read, the value, and the index *)
(* of the first character after it.                                        *)
(***************************************************************************)
JsonWs == {" ", "\t", "\n", "\r"}
ParseFail == [ok |-> FALSE, v |-> PyNone, i |-> 0]
ParseOk(val, next) == [ok |-> TRUE, v |-> val, i |-> next]

RECURSIVE SkipWs(_, _)
SkipWs(s, i) == IF Ch(s, i) \in JsonWs THEN SkipWs(s, i + 1) ELSE i
RECURSIVE ScanDigits(_, _)
ScanDigits(s, i) == IF IsDigit(Ch(s, i)) THEN ScanDigits(s, i + 1) ELSE i

\* \uXXXX of a character the model's strings use (either case of the hex digits
\* that json.dumps writes in lower case)
HexChars == "0123456789abcdef"
HexUpper == "0123456789ABCDEF"
HexUpperSet == CharsOf(HexUpper)
HexLower(c) == IF c \in HexUpperSet THEN Translate(HexUpper, HexChars, c) ELSE c
Hex4Lower(h) == HexLower(Ch(h, 1)) \o HexLower(Ch(h, 2)) \o HexLower(Ch(h, 3)) \o HexLower(Ch(h, 4))
KnownHex(h) == Len(h) = 4 /\ \E i \in 1..Len(NonAsciiHex) : NonAsciiHex[i] = Hex4Lower(h)
CharOfHex(h) == NonAsciiChars[CHOOSE i \in 1..Len(NonAsciiHex) : NonAsciiHex[i] = Hex4Lower(h)]

JsonUnescape(e) ==
    CASE e = "n" -> "\n"
      [] e = "r" -> "\r"
      [] e = "t" -> "\t"
      [] e = "f" -> "\f"
      [] OTHER -> e
\* the characters that end a chunk: STRINGCHUNK is (.*?)(["\\\x00-\x1f])
ChunkEnds == {"\"", "\\", "\n", "\r", "\t", "\f"}
\* json.decoder.scanstring, strict, chunk by chunk: s[i] is the character after
\* the opening quote or after the last escape
RECURSIVE ScanString(_, _, _)
ScanString(s, i, acc) ==
    Only({
        LET c == Ch(s, j)
            e == Ch(s, j + 1)
            chunk == acc \o SubSeq(s, i, j - 1)
        IN  IF j = 0 THEN ParseFail
            ELSE IF c = "\"" THEN ParseOk(PyStr(chunk), j + 1)
            ELSE IF c = "\\"
                 THEN IF e \in {"\"", "\\", "/", "n", "r", "t", "f"}
                      THEN ScanString(s, j + 2, chunk \o JsonUnescape(e))
                      ELSE IF e = "u" /\ j + 5 <= Len(s) /\ KnownHex(SubSeq(s, j + 2, j + 5))
                           THEN ScanString(s, j + 6, chunk \o CharOfHex(SubSeq(s, j + 2, j + 5)))
                           ELSE ParseFail
            ELSE ParseFail
        : j \in {FirstOf(s, i, ChunkEnds)}})

\* json.scanner NUMBER_RE: (-?(?:0|[1-9][0-9]*))(\.[0-9]+)?([eE][-+]?[0-9]+)?
ScanNumber(s, i) ==
    LET d0 == IF Ch(s, i) = "-" THEN i + 1 ELSE i
        d1 == IF Ch(s, d0) = "0" THEN d0 + 1 ELSE ScanDigits(s, d0)
        f1 == IF Ch(s, d1) = "." /\ IsDigit(Ch(s, d1 + 1)) THEN ScanDigits(s, d1 + 1) ELSE d1
        x0 == IF Ch(s, f1 + 1) \in {"+", "-"} THEN f1 + 2 ELSE f1 + 1
        e1 == IF Ch(s, f1) \in {"e", "E"} /\ IsDigit(Ch(s, x0)) THEN ScanDigits(s, x0) ELSE f1
        mag == StrToNat(SubSeq(s, d0, d1 - 1), 0)
    IN  IF d1 = d0 THEN ParseFail
        ELSE IF e1 = d1 THEN ParseOk(PyInt(IF d0 > i THEN 0 - mag ELSE mag), d1)
        ELSE ParseOk(PyFloat(SubSeq(s, i, e1 - 1)), e1)

RECURSIVE ParseValue(_, _)
RECURSIVE ParseElems(_, _, _)
RECURSIVE ParseMembers(_, _, _)
\* JSONArray: s[i] is the first character of an element
ParseElems(s, i, acc) ==
    Only({
        IF ~r.ok THEN ParseFail
        ELSE Only({
            IF Ch(s, j) = "," THEN ParseElems(s, SkipWs(s, j + 1), elems)
            ELSE IF Ch(s, j) = "]" THEN ParseOk(PyList(elems), j + 1)
            ELSE ParseFail
            : j \in {SkipWs(s, r.i)}, elems \in {Append(acc, r.v)}})
        : r \in {ParseValue(s, i)}})
\* JSONObject: s[i] must be the quote that opens a key; a repeated key keeps
\* its last value
ParseMembers(s, i, acc) ==
    Only({
        Only({
            IF ~r.ok THEN ParseFail
            ELSE Only({
                IF Ch(s, j) = "," THEN ParseMembers(s, SkipWs(s, j + 1), members)
                ELSE IF Ch(s, j) = "}" THEN ParseOk(PyDict(members), j + 1)
                ELSE ParseFail
                : j \in {SkipWs(s, r.i)}, members \in {DictSet(acc, key.v.s, r.v)}})
            : r \in {LET c == SkipWs(s, key.i)
                     IN  IF key.ok /\ Ch(s, c) = ":" THEN ParseValue(s, SkipWs(s, c + 1))
                         ELSE ParseFail}})
        : key \in {IF Ch(s, i) = "\"" THEN ScanString(s, i + 1, "") ELSE ParseFail}})
\* json.scanner.py_make_scanner._scan_once
ParseValue(s, i) ==
    LET c == Ch(s, i)
    IN  CASE c = "\"" -> ScanString(s, i + 1, "")
          [] c = "{" -> IF Ch(s, SkipWs(s, i + 1)) = "}"
                        THEN ParseOk(PyDict(<<>>), SkipWs(s, i + 1) + 1)
                        ELSE ParseMembers(s, SkipWs(s, i + 1), <<>>)
          [] c = "[" -> IF Ch(s, SkipWs(s, i + 1)) = "]"
                        THEN ParseOk(PyList(<<>>), SkipWs(s, i + 1) + 1)
                        ELSE ParseElems(s, SkipWs(s, i + 1), <<>>)
          [] c = "n" /\ StartsWith(s, i, "null") -> ParseOk(PyNone, i + 4)
          [] c = "t" /\ StartsWith(s, i, "true") -> ParseOk(PyBool(TRUE), i + 4)
          [] c = "f" /\ StartsWith(s, i, "false") -> ParseOk(PyBool(FALSE), i + 5)
          [] c = "N" /\ StartsWith(s, i, "NaN") -> ParseOk(PyFloat("NaN"), i + 3)
          [] c = "I" /\ StartsWith(s, i, "Infinity") -> ParseOk(PyFloat("Infinity"), i + 8)
          [] c = "-" /\ StartsWith(s, i, "-Infinity") -> ParseOk(PyFloat("-Infinity"), i + 9)
          [] c = "-" /\ ~StartsWith(s, i, "-Infinity") -> ScanNumber(s, i)
          [] IsDigit(c) -> ScanNumber(s, i)
          [] OTHER -> ParseFail
\* json.loads(s): [ok |-> FALSE] stands for json.JSONDecodeError
json_loads(str) ==
    Only({Only({IF r.ok /\ SkipWs(s, r.i) = Len(s) + 1 THEN r ELSE ParseFail
                : r \in {ParseValue(s, SkipWs(s, 1))}})
          : s \in {str}})

(***************************************************************************)
(* More of Python's str: strip(), lower(), "in", and the character class   *)
(* of the keyword pattern.                                                 *)
(***************************************************************************)
PyWhitespace == {" ", "\t", "\n", "\r", "\f"}
RStrip(s) == RStripChars(s, PyWhitespace)
Strip(s) == StripChars(s, PyWhitespace)
UpperChars == "ABCDEFGHIJKLMNOPQRSTUVWXYZÁÉÍÓÚÑ"
LowerChars == "abcdefghijklmnopqrstuvwxyzáéíóúñ"
UpperSet == CharsOf(UpperChars)
LowerOf == [c \in UpperSet |-> Translate(UpperChars, LowerChars, c)]
LowerChar(c) == IF c \in UpperSet THEN LowerOf[c] ELSE c
\* s[lo..hi] in lower case, the string taken by halves
RECURSIVE LowerRange(_, _, _)
LowerRange(s, lo, hi) ==
    IF lo > hi THEN ""
    ELSE IF lo = hi THEN LowerChar(Ch(s, lo))
    ELSE LowerRange(s, lo, (lo + hi) \div 2) \o LowerRange(s, ((lo + hi) \div 2) + 1, hi)
Lower(str) == Only({LowerRange(s, 1, Len(s)) : s \in {str}})
\* w in s
Contains(str, word) ==
    \E s \in {str}, w \in {word} :
        \E i \in 1..(Len(s) - Len(w) + 1) : SubSeq(s, i, i + Len(w) - 1) = w
\* [a-zA-ZáéíóúÁÉÍÓÚñÑ0-9]
WordCharSet == UpperSet \cup CharsOf(LowerChars) \cup DigitSet
IsWordChar(c) == c \in WordCharSet
\* re.findall(r"[a-zA-ZáéíóúÁÉÍÓÚñÑ0-9]+", s): the maximal runs, left to right
FindWords(s) == Runs(s, WordCharSet, TRUE)

(***************************************************************************)
(* The database file: the three tables, each a sequence of rows in rowid   *)
(* order, and SQLite's sqlite_sequence, the last id AUTOINCREMENT gave in   *)
(* each table.  Every method of ConversationStorage opens a connection,    *)
(* runs its statements in one transaction and commits (or rolls back when  *)
(* a statement raises), so a method is one function from database to       *)
(* database.  Timestamps are readings of a clock that counts seconds.      *)
(***************************************************************************)
\* The clock counts the seconds from 1970-01-01 00:00:00 and stays below one
\* minute; strftime of a reading, to the second and to the minute.
FormatTime(t) == "1970-01-01 00:00:" \o (IF t < 10 THEN "0" ELSE "") \o IntToStr(t)
FormatMinute(t) == "1970-01-01 00:00"
DEFAULT_USER_ID == "default"
\* Python's None where an id is expected (a conversation_id argument, a NULL column)
NoneId == -1
EmptyDb ==
    [conversations |-> <<>>, messages |-> <<>>, memories |-> <<>>,
     seq |-> [conversations |-> 0, messages |-> 0, memories |-> 0]]
ConversationIds(d) == {d.conversations[i].id : i \in 1..Len(d.conversations)}
Max2(a, b) == IF a >= b THEN a ELSE b

\* str(item): the fallback of serialize_content, for the scalars the model uses
PyStrOf(v) ==
    CASE v.t = "str" -> v.s
      [] v.t = "int" -> IntToStr(v.n)
      [] v.t = "float" -> v.s
      [] v.t = "bool" -> IF v.n = 1 THEN "True" ELSE "False"
      [] v.t = "none" -> "None"
SerializeItem(item) ==
    IF item.t = "obj" THEN model_dump(item)
    ELSE IF item.t = "dict" THEN item
    ELSE PyStr(PyStrOf(item))
serialize_content(content) ==
    IF content.t = "str" THEN content.s
    ELSE IF content.t = "list"
         THEN json_dumps(PyList([i \in 1..Len(content.items) |-> SerializeItem(content.items[i])]))
    ELSE IF content.t = "dict" THEN json_dumps(content)
    ELSE IF content.t = "obj" THEN json_dumps(model_dump(content))
    ELSE PyStrOf(content)

\* create_conversation with the ids counted for each user apart
create_conversation_id_per_user(d, title, user_id, t) ==
    LET Mine(r) == r.user_id = user_id
        id == Len(SelectSeq(d.conversations, Mine)) + 1
        row == [id |-> id, user_id |-> user_id,
                title |-> IF title = "" THEN "Conversation " \o FormatMinute(t) ELSE title,
                created_at |-> t, updated_at |-> t]
    IN  [db |-> [d EXCEPT !.conversations = Append(@, row),
                          !.seq.conversations = Max2(@, id)],
         ret |-> id]
\* title "" stands for a title that is None or empty ("if not title")
create_conversation(d, title, user_id, t) ==
    LET id == d.seq.conversations + 1
        row == [id |-> id, user_id |-> user_id,
                title |-> IF title = "" THEN "Conversation " \o FormatMinute(t) ELSE title,
                created_at |-> t, updated_at |-> t]
    IN  [db |-> [d EXCEPT !.conversations = Append(@, row), !.seq.conversations = id],
         ret |-> id]

\* add_message whose UPDATE of updated_at has no WHERE
add_message_refreshes_all(d, conversation_id, role, content, t) ==
    LET id == d.seq.messages + 1
        row == [id |-> id, conversation_id |-> conversation_id, role |-> role,
                content |-> serialize_content(content), created_at |-> t]
    IN  IF conversation_id # NoneId /\ conversation_id \notin ConversationIds(d)
        THEN [db |-> d, raised |-> TRUE]
        ELSE [db |-> [d EXCEPT
                        !.messages = Append(@, row),
                        !.seq.messages = id,
                        !.conversations = [i \in 1..Len(@) |-> [@[i] EXCEPT !.updated_at = t]]],
              raised |-> FALSE]
\* add_message that keeps one message for each conversation, the last
add_message_replaces(d, conversation_id, role, content, t) ==
    LET Others(r) == r.conversation_id # conversation_id
        id == d.seq.messages + 1
        row == [id |-> id, conversation_id |-> conversation_id, role |-> role,
                content |-> serialize_content(content), created_at |-> t]
    IN  IF conversation_id # NoneId /\ conversation_id \notin ConversationIds(d)
        THEN [db |-> d, raised |-> TRUE]
        ELSE [db |-> [d EXCEPT !.messages = Append(SelectSeq(@, Others), row),
                               !.seq.messages = id],
              raised |-> FALSE]
\* add_message on a connection that does not enforce the foreign key
add_message_unchecked(d, conversation_id, role, content, t) ==
    LET id == d.seq.messages + 1
        row == [id |-> id, conversation_id |-> conversation_id, role |-> role,
                content |-> serialize_content(content), created_at |-> t]
    IN  [db |-> [d EXCEPT
                    !.messages = Append(@, row),
                    !.seq.messages = id,
                    !.conversations =
                        [i \in 1..Len(@) |->
                            IF @[i].id = conversation_id
                            THEN [@[i] EXCEPT !.updated_at = t] ELSE @[i]]],
         raised |-> FALSE]
\* add_message that writes to the conversation created last
add_message_to_latest(d, conversation_id, role, content, t) ==
    LET id == d.seq.messages + 1
        row == [id |-> id, conversation_id |-> d.seq.conversations, role |-> role,
                content |-> serialize_content(content), created_at |-> t]
    IN  IF conversation_id # NoneId /\ conversation_id \notin ConversationIds(d)
        THEN [db |-> d, raised |-> TRUE]
        ELSE [db |-> [d EXCEPT
                        !.messages = Append(@, row),
                        !.seq.messages = id,
                        !.conversations =
                            [i \in 1..Len(@) |->
                                IF @[i].id = d.seq.conversations
                                THEN [@[i] EXCEPT !.updated_at = t] ELSE @[i]]],
              raised |-> FALSE]
\* add_message that commits nothing
add_message_dropped(d, conversation_id, role, content, t) ==
    [db |-> d, raised |-> FALSE]
\* raised: the INSERT broke the foreign key (PRAGMA foreign_keys = ON) and the
\* transaction was rolled back
add_message(d, conversation_id, role, content, t) ==
    LET content_str == serialize_content(content)
        id == d.seq.messages + 1
        row == [id |-> id, conversation_id |-> conversation_id, role |-> role,
                content |-> content_str, created_at |-> t]
    IN  IF conversation_id # NoneId /\ conversation_id \notin ConversationIds(d)
        THEN [db |-> d, raised |-> TRUE]
        ELSE [db |-> [d EXCEPT
                        !.messages = Append(@, row),
                        !.seq.messages = id,
                        !.conversations =
                            [i \in 1..Len(@) |->
                                IF @[i].id = conversation_id
                                THEN [@[i] EXCEPT !.updated_at = t] ELSE @[i]]],
              raised |-> FALSE]

\* the cleaning left out: every block is returned as it was stored
CleanBlock_keeps_extras(item) == item
\* "Keep only essential fields based on type"
CleanBlock(item) ==
    IF item.t # "dict" THEN item
    ELSE IF DictGet(item, "type", PyNone) = PyStr("text")
         THEN PyDict(<<KV("type", PyStr("text")),
                       KV("text", DictGet(item, "text", PyStr("")))>>)
    ELSE IF DictGet(item, "type", PyNone) = PyStr("tool_use")
         THEN PyDict(<<KV("type", PyStr("tool_use")),
                       KV("id", DictGet(item, "id", PyStr(""))),
                       KV("name", DictGet(item, "name", PyStr(""))),
                       KV("input", DictGet(item, "input", PyDict(<<>>)))>>)
    ELSE IF DictGet(item, "type", PyNone) = PyStr("tool_result")
         THEN PyDict(<<KV("type", PyStr("tool_result")),
                       KV("tool_use_id", DictGet(item, "tool_use_id", PyStr(""))),
                       KV("content", DictGet(item, "content", PyStr("")))>>)
    ELSE item
\* the content of one row as get_messages returns it
ParseContent(content) ==
    Only({IF ~parsed.ok THEN PyStr(content)
          ELSE IF parsed.v.t = "list"
               THEN PyList([i \in 1..Len(parsed.v.items) |-> CleanBlock(parsed.v.items[i])])
          ELSE parsed.v
          : parsed \in {json_loads(content)}})
get_messages(d, conversation_id) ==
    LET Mine(r) == r.conversation_id = conversation_id
    IN  Only({List([i \in 1..Len(rows) |->
                        [role |-> rows[i].role, content |-> ParseContent(rows[i].content)]])
              : rows \in {SelectSeq(d.messages, Mine)}})

\* the row, or <<>> for None
get_conversation(d, conversation_id) ==
    LET Mine(r) == r.id = conversation_id
    IN  SelectSeq(d.conversations, Mine)

\* A stable sort, descending: keys[i] is the pair of numbers rows[i] is ordered
\* by, larger pairs first, and rows with equal pairs keep their order (SQLite's
\* sorter over a rowid scan, Python's list.sort with reverse=True).
StableSort(rows, keys) ==
    Only({
        LET Before(i, j) == \/ key[i][1] > key[j][1]
                            \/ key[i][1] = key[j][1] /\ key[i][2] > key[j][2]
            Rank(i) == 1 + Cardinality({j \in 1..Len(s) :
                            Before(j, i) \/ (~Before(i, j) /\ j < i)})
        IN  List([k \in 1..Len(s) |-> s[CHOOSE i \in 1..Len(s) : Rank(i) = k]])
        : s \in {rows}, key \in {List(keys)}})
\* LIMIT n
Limit(rows, k) == Only({IF Len(s) <= k THEN s ELSE SubSeq(s, 1, k) : s \in {rows}})

list_conversations_by_user(d, user_id) ==
    LET Mine(r) == r.user_id = user_id
    IN  Only({StableSort(rows, [i \in 1..Len(rows) |-> <<rows[i].updated_at, 0>>])
              : rows \in {SelectSeq(d.conversations, Mine)}})

\* save_memory with the duplicate's confidence overwritten, not raised to the max
save_memory_overwrite(d, user_id, content, source_conversation_id, confidence, t) ==
    \* content.strip(), and the rows SELECT id, confidence ... finds
    Only({Only({
    LET id == d.seq.memories + 1
        row == [id |-> id, user_id |-> user_id, content |-> stripped,
                source_conversation_id |-> source_conversation_id,
                confidence |-> confidence, created_at |-> t, updated_at |-> t]
    IN  IF stripped = "" THEN [db |-> d, ret |-> NoneId, raised |-> TRUE]
        ELSE IF existing # <<>>
        THEN [db |-> [d EXCEPT !.memories =
                        [i \in 1..Len(@) |->
                            IF @[i].id = existing[1].id
                            THEN [@[i] EXCEPT !.updated_at = t, !.confidence = confidence]
                            ELSE @[i]]],
              ret |-> existing[1].id, raised |-> FALSE]
        ELSE IF source_conversation_id # NoneId
                /\ source_conversation_id \notin ConversationIds(d)
        THEN [db |-> d, ret |-> NoneId, raised |-> TRUE]
        ELSE [db |-> [d EXCEPT !.memories = Append(@, row), !.seq.memories = id],
              ret |-> id, raised |-> FALSE]
    : existing \in {LET Same(r) == r.user_id = user_id /\ r.content = stripped
                     IN  SelectSeq(d.memories, Same)}})
    : stripped \in {Strip(content)}})
\* save_memory without the test for empty content
save_memory_blank_stored(d, user_id, content, source_conversation_id, confidence, t) ==
    \* content.strip(), and the rows SELECT id, confidence ... finds
    Only({Only({
    LET id == d.seq.memories + 1
        row == [id |-> id, user_id |-> user_id, content |-> stripped,
                source_conversation_id |-> source_conversation_id,
                confidence |-> confidence, created_at |-> t, updated_at |-> t]
    IN  IF existing # <<>>
        THEN [db |-> [d EXCEPT !.memories =
                        [i \in 1..Len(@) |->
                            IF @[i].id = existing[1].id
                            THEN [@[i] EXCEPT
                                    !.updated_at = t,
                                    !.confidence = IF @ < confidence THEN confidence ELSE @]
                            ELSE @[i]]],
              ret |-> existing[1].id, raised |-> FALSE]
        ELSE IF source_conversation_id # NoneId
                /\ source_conversation_id \notin ConversationIds(d)
        THEN [db |-> d, ret |-> NoneId, raised |-> TRUE]
        ELSE [db |-> [d EXCEPT !.memories = Append(@, row), !.seq.memories = id],
              ret |-> id, raised |-> FALSE]
    : existing \in {LET Same(r) == r.user_id = user_id /\ r.content = stripped
                     IN  SelectSeq(d.memories, Same)}})
    : stripped \in {Strip(content)}})
\* save_memory with the duplicate's source moved to the conversation of the later save
save_memory_moves_source(d, user_id, content, source_conversation_id, confidence, t) ==
    \* content.strip(), and the rows SELECT id, confidence ... finds
    Only({Only({
    LET id == d.seq.memories + 1
        row == [id |-> id, user_id |-> user_id, content |-> stripped,
                source_conversation_id |-> source_conversation_id,
                confidence |-> confidence, created_at |-> t, updated_at |-> t]
    IN  IF stripped = "" THEN [db |-> d, ret |-> NoneId, raised |-> TRUE]
        ELSE IF existing # <<>>
        THEN [db |-> [d EXCEPT !.memories =
                        [i \in 1..Len(@) |->
                            IF @[i].id = existing[1].id
                            THEN [@[i] EXCEPT
                                    !.updated_at = t,
                                    !.source_conversation_id = source_conversation_id,
                                    !.confidence = IF @ < confidence THEN confidence ELSE @]
                            ELSE @[i]]],
              ret |-> existing[1].id, raised |-> FALSE]
        ELSE IF source_conversation_id # NoneId
                /\ source_conversation_id \notin ConversationIds(d)
        THEN [db |-> d, ret |-> NoneId, raised |-> TRUE]
        ELSE [db |-> [d EXCEPT !.memories = Append(@, row), !.seq.memories = id],
              ret |-> id, raised |-> FALSE]
    : existing \in {LET Same(r) == r.user_id = user_id /\ r.content = stripped
                     IN  SelectSeq(d.memories, Same)}})
    : stripped \in {Strip(content)}})
\* raised: ValueError for empty content, or the INSERT broke the foreign key
save_memory(d, user_id, content, source_conversation_id, confidence, t) ==
    \* content.strip(), and the rows SELECT id, confidence ... finds
    Only({Only({
    LET id == d.seq.memories + 1
        row == [id |-> id, user_id |-> user_id, content |-> stripped,
                source_conversation_id |-> source_conversation_id,
                confidence |-> confidence, created_at |-> t, updated_at |-> t]
    IN  IF stripped = "" THEN [db |-> d, ret |-> NoneId, raised |-> TRUE]
        ELSE IF existing # <<>>
        THEN [db |-> [d EXCEPT !.memories =
                        [i \in 1..Len(@) |->
                            IF @[i].id = existing[1].id
                            THEN [@[i] EXCEPT
                                    !.updated_at = t,
                                    !.confidence = IF @ < confidence THEN confidence ELSE @]
                            ELSE @[i]]],
              ret |-> existing[1].id, raised |-> FALSE]
        ELSE IF source_conversation_id # NoneId
                /\ source_conversation_id \notin ConversationIds(d)
        THEN [db |-> d, ret |-> NoneId, raised |-> TRUE]
        ELSE [db |-> [d EXCEPT !.memories = Append(@, row), !.seq.memories = id],
              ret |-> id, raised |-> FALSE]
    : existing \in {LET Same(r) == r.user_id = user_id /\ r.content = stripped
                     IN  SelectSeq(d.memories, Same)}})
    : stripped \in {Strip(content)}})

\* The statements of save_memory, one by one.
\* lines 336-345: the id of the row SELECT ... LIMIT 1 finds, None without one
select_memory(d, user_id, content) ==
    LET Same(r) == r.user_id = user_id /\ r.content = content
    IN  Only({IF rows = <<>> THEN NoneId ELSE rows[1].id : rows \in {SelectSeq(d.memories, Same)}})
\* lines 347-358: the UPDATE of the row with the id, and the commit
update_memory(d, memory_id, confidence, t) ==
    [d EXCEPT !.memories =
        [i \in 1..Len(@) |->
            IF @[i].id = memory_id
            THEN [@[i] EXCEPT !.updated_at = t,
                              !.confidence = IF @ < confidence THEN confidence ELSE @]
            ELSE @[i]]]
\* lines 360-367: the INSERT, and the commit; raised when it broke the foreign key
insert_memory(d, user_id, content, source_conversation_id, confidence, t) ==
    LET id == d.seq.memories + 1
        row == [id |-> id, user_id |-> user_id, content |-> content,
                source_conversation_id |-> source_conversation_id,
                confidence |-> confidence, created_at |-> t, updated_at |-> t]
    IN  IF source_conversation_id # NoneId /\ source_conversation_id \notin ConversationIds(d)
        THEN [db |-> d, ret |-> NoneId, raised |-> TRUE]
        ELSE [db |-> [d EXCEPT !.memories = Append(@, row), !.seq.memories = id],
              ret |-> id, raised |-> FALSE]

\* query.lower() cut into words, those of 4 characters or more kept
QueryWords(query) ==
    LET Long(w) == Len(w) >= 4
    IN  Only({SelectSeq(FindWords(lowered), Long) : lowered \in {Lower(query)}})
\* the candidates with WHERE user_id = ? left out
MemoryCandidates_all_users(d, user_id) ==
    Limit(StableSort(d.memories,
                     [i \in 1..Len(d.memories) |->
                        <<d.memories[i].updated_at, d.memories[i].confidence>>]), 100)
\* SELECT ... WHERE user_id = ? ORDER BY updated_at DESC, confidence DESC LIMIT 100
\* (rows that tie on both come in rowid order, as SQLite's sorter leaves them)
MemoryCandidates(d, user_id) ==
    LET Mine(r) == r.user_id = user_id
    IN  Only({Limit(StableSort(rows, [i \in 1..Len(rows) |->
                                        <<rows[i].updated_at, rows[i].confidence>>]), 100)
              : rows \in {SelectSeq(d.memories, Mine)}})
\* scored, after scored.sort(key=(score, updated_at), reverse=True)
ScoredMemories(d, user_id, query) ==
    LET Hits(content, words) ==
            Only({Cardinality({i \in 1..Len(words) : Contains(lowered, words[i])})
                  : lowered \in {Lower(content)}})
    IN  Only({
            Only({StableSort(scored, [i \in 1..Len(scored) |->
                                        <<scored[i].score, scored[i].updated_at>>])
                  : scored \in {List([i \in 1..Len(cands) |->
                        [score |-> (Hits(cands[i].content, words) * 100) + cands[i].confidence,
                         updated_at |-> cands[i].updated_at,
                         memory_id |-> cands[i].id,
                         content |-> cands[i].content]])}})
            : words \in {QueryWords(query)}, cands \in {MemoryCandidates(d, user_id)}})
\* the selection loop without the test of projected against max_chars
RECURSIVE SelectLoop_ignores_chars(_, _, _, _, _, _, _)
SelectLoop_ignores_chars(scored, i, selected, used_chars, has_words, max_items, max_chars) ==
    IF i > Len(scored) THEN selected
    ELSE Only({
            Only({
                IF (scored[i].score <= 0 /\ has_words) \/ memory_text = ""
                THEN SelectLoop_ignores_chars(scored, i + 1, selected, used_chars, has_words,
                                              max_items, max_chars)
                ELSE IF Len(picked) >= max_items THEN picked
                ELSE SelectLoop_ignores_chars(scored, i + 1, picked, projected, has_words,
                                              max_items, max_chars)
                : projected \in {used_chars + Len(memory_text)},
                  picked \in {Append(selected, [id |-> scored[i].memory_id, text |-> memory_text])}})
            : memory_text \in {Strip(scored[i].content)}})
\* the selection loop that stops at the first memory over the budget
RECURSIVE SelectLoop_stops_when_full(_, _, _, _, _, _, _)
SelectLoop_stops_when_full(scored, i, selected, used_chars, has_words, max_items, max_chars) ==
    IF i > Len(scored) THEN selected
    ELSE Only({
            Only({
                IF projected > max_chars THEN selected
                ELSE IF (scored[i].score <= 0 /\ has_words) \/ memory_text = ""
                THEN SelectLoop_stops_when_full(scored, i + 1, selected, used_chars, has_words,
                                                max_items, max_chars)
                ELSE IF Len(picked) >= max_items THEN picked
                ELSE SelectLoop_stops_when_full(scored, i + 1, picked, projected, has_words,
                                                max_items, max_chars)
                : projected \in {used_chars + Len(memory_text)},
                  picked \in {Append(selected, [id |-> scored[i].memory_id, text |-> memory_text])}})
            : memory_text \in {Strip(scored[i].content)}})
\* the selection loop: from scored[i] on, with what is selected so far
RECURSIVE SelectLoop(_, _, _, _, _, _, _)
SelectLoop(scored, i, selected, used_chars, has_words, max_items, max_chars) ==
    IF i > Len(scored) THEN selected
    ELSE Only({
            Only({
                IF (scored[i].score <= 0 /\ has_words) \/ memory_text = "" \/ projected > max_chars
                THEN SelectLoop(scored, i + 1, selected, used_chars, has_words, max_items, max_chars)
                ELSE IF Len(picked) >= max_items THEN picked
                ELSE SelectLoop(scored, i + 1, picked, projected, has_words, max_items, max_chars)
                : projected \in {used_chars + Len(memory_text)},
                  picked \in {Append(selected, [id |-> scored[i].memory_id, text |-> memory_text])}})
            : memory_text \in {Strip(scored[i].content)}})
\* the list "selected" of get_relevant_memories: (memory_id, memory_text) pairs
SelectedMemories(d, user_id, query, max_items, max_chars) ==
    Only({SelectLoop(scored, 1, <<>>, 0, has_words, max_items, max_chars)
          : scored \in {ScoredMemories(d, user_id, query)},
            has_words \in {QueryWords(query) # <<>>}})
get_relevant_memories(d, user_id, query, max_items, max_chars) ==
    Only({List([i \in 1..Len(selected) |-> selected[i].text])
          : selected \in {SelectedMemories(d, user_id, query, max_items, max_chars)}})

list_memories(d, user_id, limit) ==
    LET Mine(r) == r.user_id = user_id
    IN  Only({Limit(StableSort(rows, [i \in 1..Len(rows) |-> <<rows[i].updated_at, rows[i].id>>]),
                    limit)
              : rows \in {SelectSeq(d.memories, Mine)}})

\* clear_memories whose DELETE has no WHERE
clear_memories_of_all(d, user_id) ==
    LET Mine(r) == r.user_id = user_id
    IN  [db |-> [d EXCEPT !.memories = <<>>],
         ret |-> Len(SelectSeq(d.memories, Mine))]
\* lines 457-464
clear_memories(d, user_id) ==
    LET Mine(r) == r.user_id = user_id
        Others(r) == r.user_id # user_id
    IN  [db |-> [d EXCEPT !.memories = SelectSeq(@, Others)],
         ret |-> Len(SelectSeq(d.memories, Mine))]

(***************************************************************************)
(* src/tools: the registry and the three tool modules.                     *)
(***************************************************************************)
\* the modules pkgutil.iter_modules finds, with what each defines
ToolModules ==
    <<[module |-> "calculator", name |-> "calculator", has_definition |-> TRUE, has_execute |-> TRUE],
      [module |-> "time", name |-> "get_time", has_definition |-> TRUE, has_execute |-> TRUE],
      [module |-> "weather", name |-> "get_weather", has_definition |-> TRUE, has_execute |-> TRUE]>>
\* the names of the definitions advertised to the LLM, in order
TOOL_DEFINITIONS ==
    LET Has(m) == m.has_definition
        ms == SelectSeq(ToolModules, Has)
    IN  [i \in 1..Len(ms) |-> ms[i].name]
\* the registry keyed by the modules' names instead of their definitions' names
TOOL_EXECUTORS_by_module ==
    {<<ToolModules[i].module, ToolModules[i].module>> :
        i \in {j \in 1..Len(ToolModules) : ToolModules[j].has_definition /\ ToolModules[j].has_execute}}
\* the keys of the executor registry, each with the module whose execute it is
TOOL_EXECUTORS ==
    {<<ToolModules[i].name, ToolModules[i].module>> :
        i \in {j \in 1..Len(ToolModules) : ToolModules[j].has_definition /\ ToolModules[j].has_execute}}
ToolOk(result) == [raised |-> FALSE, result |-> result]
\* the executor raised (KeyError on a missing field)
ToolRaised == [raised |-> TRUE, result |-> ""]
\* calculator.execute; the operands the model gives it are ints, and a
\* division is exact
calculator_execute(tool_input) ==
    IF ~HasKey(tool_input, "operation") \/ ~HasKey(tool_input, "a") \/ ~HasKey(tool_input, "b")
    THEN ToolRaised
    ELSE LET operation == DictGet(tool_input, "operation", PyNone)
             a == DictGet(tool_input, "a", PyNone).n
             b == DictGet(tool_input, "b", PyNone).n
         IN  CASE operation = PyStr("add") -> ToolOk(IntToStr(a + b))
               [] operation = PyStr("subtract") -> ToolOk(IntToStr(a - b))
               [] operation = PyStr("multiply") -> ToolOk(IntToStr(a * b))
               [] operation = PyStr("divide") /\ b = 0 -> ToolOk("Error: Division by zero")
               [] operation = PyStr("divide") /\ b # 0 /\ a % b = 0 -> ToolOk(IntToStr(a \div b) \o ".0")
               [] operation.t # "str" \/ operation.s \notin {"add", "subtract", "multiply", "divide"} ->
                    ToolOk("Unknown operation: " \o PyStrOf(operation))
time_execute(tool_input, t) == ToolOk(FormatTime(t))
weather_execute(tool_input) ==
    IF ~HasKey(tool_input, "city") THEN ToolRaised
    ELSE ToolOk(json_dumps(PyDict(<<KV("city", DictGet(tool_input, "city", PyNone)),
                                    KV("temperature", PyInt(22)),
                                    KV("condition", PyStr("Sunny")),
                                    KV("humidity", PyInt(65))>>)))
\* the executor called inside try/except, the exception returned as the result
execute_tool_catches(tool_name, tool_input, t) ==
    IF \E e \in TOOL_EXECUTORS : e[1] = tool_name
    THEN LET module == (CHOOSE e \in TOOL_EXECUTORS : e[1] = tool_name)[2]
             result == CASE module = "calculator" -> calculator_execute(tool_input)
                         [] module = "time" -> time_execute(tool_input, t)
                         [] module = "weather" -> weather_execute(tool_input)
         IN  IF result.raised THEN ToolOk("Error executing tool") ELSE result
    ELSE ToolOk("Tool not found: " \o tool_name)
\* the registry read with TOOL_EXECUTORS[tool_name]: a KeyError for a name it
\* does not hold
execute_tool_raises_unknown(tool_name, tool_input, t) ==
    IF \E e \in TOOL_EXECUTORS : e[1] = tool_name
    THEN LET module == (CHOOSE e \in TOOL_EXECUTORS : e[1] = tool_name)[2]
         IN  CASE module = "calculator" -> calculator_execute(tool_input)
               [] module = "time" -> time_execute(tool_input, t)
               [] module = "weather" -> weather_execute(tool_input)
    ELSE ToolRaised
\* main.execute_tool; t is the clock, which get_time reads
execute_tool(tool_name, tool_input, t) ==
    IF \E e \in TOOL_EXECUTORS : e[1] = tool_name
    THEN LET module == (CHOOSE e \in TOOL_EXECUTORS : e[1] = tool_name)[2]
         IN  CASE module = "calculator" -> calculator_execute(tool_input)
               [] module = "time" -> time_execute(tool_input, t)
               [] module = "weather" -> weather_execute(tool_input)
    ELSE ToolOk("Tool not found: " \o tool_name)

(***************************************************************************)
(* src/main.py: the memory heuristics.                                     *)
(***************************************************************************)
MEMORY_TRIGGER_KEYWORDS ==
    <<"recuerda", "remember", "otra conversación", "conversación anterior",
      "como te dije", "como dije", "mi perfil", "mis preferencias",
      "sobre mí", "mi proyecto", "mi stack", "my preferences", "my profile">>
MEMORY_CAPTURE_MARKERS ==
    <<"mi nombre es", "me llamo", "soy ", "trabajo en", "trabajo con",
      "prefiero", "me gusta", "uso ", "vivo en", "estoy aprendiendo",
      "i am ", "i work", "i prefer", "i like", "my name is">>
ContainsAny(s, ws) == \E i \in 1..Len(ws) : Contains(s, ws[i])
should_load_cross_memory(user_message) ==
    \E lowered \in {Lower(user_message)} : ContainsAny(lowered, MEMORY_TRIGGER_KEYWORDS)
\* the budget with the length compared by >=
memory_budget_from_180(user_message) ==
    IF should_load_cross_memory(user_message) THEN <<5, 1000>>
    ELSE IF Len(user_message) >= 180 THEN <<4, 800>>
    ELSE <<3, 550>>
\* lines 46-53
memory_budget(user_message) ==
    IF should_load_cross_memory(user_message) THEN <<5, 1000>>
    ELSE IF Len(user_message) > 180 THEN <<4, 800>>
    ELSE <<3, 550>>

RECURSIVE JoinLines(_, _)
JoinLines(snippets, i) ==
    IF i > Len(snippets) THEN ""
    ELSE (IF i > 1 THEN "\n" ELSE "") \o "- " \o snippets[i] \o JoinLines(snippets, i + 1)
\* "" stands for a system prompt that is None: the caller only tests the
\* result for truth
build_system_prompt_with_memory(system_prompt, memory_snippets) ==
    LET memory_section ==
            "Memoria útil de conversaciones anteriores (si aplica a esta petición):\n"
            \o JoinLines(memory_snippets, 1) \o "\n"
            \o "Úsala solo cuando sea relevante; no inventes hechos faltantes."
    IN  IF memory_snippets = <<>> /\ system_prompt = "" THEN ""
        ELSE Only({IF memory_snippets = <<>> THEN base_prompt
                   ELSE IF base_prompt # "" THEN base_prompt \o "\n\n" \o memory_section
                   ELSE memory_section
                   : base_prompt \in {Strip(system_prompt)}})

\* s.split()
Split(s) == Runs(s, PyWhitespace, FALSE)
\* " ".join(words[i..])
RECURSIVE JoinWords(_, _)
JoinWords(words, i) ==
    IF i > Len(words) THEN ""
    ELSE (IF i > 1 THEN " " ELSE "") \o words[i] \o JoinWords(words, i + 1)
\* " ".join(s.strip().split())
Normalize(s) == Only({JoinWords(words, 1) : words \in {Split(Strip(s))}})
EndsWith(s, suffix) == Len(s) >= Len(suffix) /\ SubSeq(s, Len(s) - Len(suffix) + 1, Len(s)) = suffix
\* s.strip(" .")
StripDots(s) == StripChars(s, {" ", "."})
\* re.search(r"recuerda que\s+(.+)$", normalized, IGNORECASE): the places where
\* the phrase, white space and at least one more character follow; group(1)
\* of the leftmost.  normalized holds no white space but single blanks.
ExplicitPlaces(normalized) ==
    {p \in 1..Len(normalized) :
        /\ p + 13 <= Len(normalized)
        /\ Lower(SubSeq(normalized, p, p + 11)) = "recuerda que"
        /\ Ch(normalized, p + 12) = " "}
ExplicitGroup(normalized) ==
    Only({SubSeq(normalized, p + 13, Len(normalized)) : p \in {MinOf(ExplicitPlaces(normalized))}})
\* "Deduplicate preserving order"
RECURSIVE Unique(_, _, _)
Unique(candidates, i, unique) ==
    IF i > Len(candidates) THEN unique
    ELSE IF candidates[i] # "" /\ \A j \in 1..Len(unique) : unique[j] # candidates[i]
         THEN Unique(candidates, i + 1, Append(unique, candidates[i]))
         ELSE Unique(candidates, i + 1, unique)
\* lines 93-97: what the "recuerda que" pattern contributes
ExplicitCandidates(normalized) ==
    IF ExplicitPlaces(normalized) = {} THEN <<>>
    ELSE Only({IF Len(explicit_memory) >= 8 THEN <<explicit_memory>> ELSE <<>>
               : explicit_memory \in {StripDots(ExplicitGroup(normalized))}})
\* lines 99-104: what the capture markers contribute
MarkedCandidates(normalized, lowered) ==
    IF ~ContainsAny(lowered, MEMORY_CAPTURE_MARKERS) THEN <<>>
    ELSE Only({IF Len(trimmed) <= 220 THEN <<trimmed>>
               ELSE <<RStrip(SubSeq(trimmed, 1, 220)) \o "...">>
               : trimmed \in {StripDots(normalized)}})
\* the extraction without the test for plain questions
extract_memory_candidates_from_questions(user_message) ==
    Only({
        Only({
            IF Len(normalized) < 18 THEN <<>>
            ELSE Only({Unique(candidates, 1, <<>>)
                       : candidates \in {ExplicitCandidates(normalized)
                                         \o MarkedCandidates(normalized, lowered)}})
            : lowered \in {Lower(normalized)}})
        : normalized \in {Normalize(user_message)}})
\* lines 80-112
extract_memory_candidates(user_message) ==
    Only({
        Only({
            IF Len(normalized) < 18 THEN <<>>
            ELSE IF EndsWith(normalized, "?") /\ ~Contains(lowered, "recuerda que") THEN <<>>
            ELSE Only({Unique(candidates, 1, <<>>)
                       : candidates \in {ExplicitCandidates(normalized)
                                         \o MarkedCandidates(normalized, lowered)}})
            : lowered \in {Lower(normalized)}})
        : normalized \in {Normalize(user_message)}})

(***************************************************************************)
(* The state: the SQLite database, the clock, one call of run_agent, and   *)
(* the calls that run side by side with each other.                        *)
(***************************************************************************)
VARIABLES
    db,                \* the tables of ConversationStorage with their AUTOINCREMENT counters
    now,               \* CURRENT_TIMESTAMP, in seconds
    owner,             \* history: the ids the store has handed out, with the caller's arguments,
                       \* and the ids of the message rows written from a text (a str)
    last,              \* history: the last call made on the store from outside run_agent
    pc,                \* where run_agent is: "idle", "loop", "await", "returned", "raised"
    args,              \* the arguments of the call of run_agent in progress
    conversation_id,   \* run_agent's local, after the conversation is resolved
    messages,          \* run_agent's working list
    iteration,         \* run_agent's loop counter
    request,           \* request_params of the request the LLM is answering
    ret,               \* the value run_agent returned
    hist,              \* history of the call in progress
    used,              \* history: the calls of run_agent and the tool-use responses so far
    conn,              \* the calls of save_memory that run side by side, each on its connection:
                       \* where the call is and its locals
    turn               \* the calls of run_agent that run side by side: where each is, its
                       \* locals and, as history, what it handed to add_message
vars == <<db, now, owner, last, pc, args, conversation_id, messages, iteration, request, ret, hist, used,
          conn, turn>>
side_vars == <<conn, turn>>
agent_vars == <<pc, args, conversation_id, messages, iteration, request, ret, hist, used>>

\* the most calls made on the store from outside run_agent
MaxCalls == 3
\* the last reading of the clock
MaxClock == 1
\* the most calls of run_agent
MaxTurns == 2
\* the most tool-use responses the LLM gives over all turns
MaxToolRounds == 1
\* the most calls of run_agent when the loop is followed to its end
LoopTurns == 1

\* save_memory's default confidence 1.0; confidences are counted in tenths
DEFAULT_CONFIDENCE == 10
\* list_memories' default limit
DEFAULT_LIMIT == 20
max_iterations == 10

Users == {DEFAULT_USER_ID, "user-b"}
NoCall == [k |-> 0, op |-> "", user |-> "", text |-> "", num |-> 0, ret |-> NoneId, raised |-> FALSE]
NoArgs == [user_message |-> "", conversation_id |-> NoneId, system_prompt |-> "", user_id |-> ""]
NoRequest == [messages |-> <<>>, system |-> ""]
NoResponse == [stop_reason |-> "", content |-> PyList(<<>>)]
\* the connections that call save_memory side by side
Connections == {"A", "B"}
\* the calls of run_agent that run side by side
Turns == {"T1", "T2"}
NoSave == [pc |-> "idle", user_id |-> "", content |-> "", source_conversation_id |-> NoneId,
           confidence |-> 0, existing |-> NoneId, ret |-> NoneId, raised |-> FALSE]
NoTurn == [pc |-> "idle", user_message |-> "", system_prompt |-> "", user_id |-> "",
           conversation_id |-> NoneId, messages |-> <<>>, candidate |-> 0, iteration |-> 0,
           system |-> "", response |-> NoResponse, added |-> <<>>]
\* the history of a call: the database when the call was made and when the
\* last request was issued, the requests issued, the response to the last
\* request, the tools dispatched since the last request
NoHist(d) ==
    [at_call |-> d, at_request |-> d, requests |-> 0, response |-> NoResponse,
     dispatched |-> <<>>]
Init ==
    /\ db = EmptyDb
    /\ now = 0
    /\ owner = [conversations |-> {}, memories |-> {}, texts |-> {}]
    /\ last = NoCall
    /\ pc = "idle"
    /\ args = NoArgs
    /\ conversation_id = NoneId
    /\ messages = <<>>
    /\ iteration = 0
    /\ request = NoRequest
    /\ ret = NoneId
    /\ hist = NoHist(EmptyDb)
    /\ used = [turns |-> 0, tool_rounds |-> 0]
    /\ conn = [c \in Connections |-> NoSave]
    /\ turn = [p \in Turns |-> NoTurn]

\* the users a memory id, a conversation id, was handed to
MemoryOwners(id) == {x[2] : x \in {y \in owner.memories : y[1] = id}}
ConversationOwners(id) == {x[2] : x \in {y \in owner.conversations : y[1] = id}}

(***************************************************************************)
(* Calls on the store made by a front end, outside run_agent.              *)
(***************************************************************************)
Called(op, user, text, num, r, raised) ==
    [k |-> last.k + 1, op |-> op, user |-> user, text |-> text, num |-> num,
     ret |-> r, raised |-> raised]
CreateConversation(user_id, title) ==
    /\ pc = "idle" /\ last.k < MaxCalls
    /\ LET r == create_conversation(db, title, user_id, now)
       IN  /\ db' = r.db
           /\ owner' = [owner EXCEPT !.conversations = @ \cup {<<r.ret, user_id>>}]
           /\ last' = Called("create_conversation", user_id, title, 0, r.ret, FALSE)
    /\ UNCHANGED <<now, agent_vars, side_vars>>
SaveMemory(user_id, content, source_conversation_id, confidence) ==
    /\ pc = "idle" /\ last.k < MaxCalls
    /\ LET r == save_memory(db, user_id, content, source_conversation_id, confidence, now)
       IN  /\ db' = r.db
           /\ owner' = IF r.raised THEN owner
                       ELSE [owner EXCEPT !.memories = @ \cup {<<r.ret, user_id, Strip(content)>>}]
           /\ last' = Called("save_memory", user_id, content, confidence, r.ret, r.raised)
    /\ UNCHANGED <<now, agent_vars, side_vars>>
ClearMemories(user_id) ==
    /\ pc = "idle" /\ last.k < MaxCalls
    /\ LET r == clear_memories(db, user_id)
       IN  /\ db' = r.db
           /\ last' = Called("clear_memories", user_id, "", 0, r.ret, FALSE)
    /\ UNCHANGED <<now, owner, agent_vars, side_vars>>
\* add_message of a plain text; last.ret keeps the conversation id given
AddMessage(cid, role, text) ==
    /\ pc = "idle" /\ last.k < MaxCalls
    /\ LET r == add_message(db, cid, role, PyStr(text), now)
       IN  /\ db' = r.db
           /\ owner' = IF r.raised THEN owner
                       ELSE [owner EXCEPT !.texts = @ \cup {r.db.seq.messages}]
           /\ last' = Called("add_message", role, text, 0, cid, r.raised)
    /\ UNCHANGED <<now, agent_vars, side_vars>>
\* add_message of a list of content blocks, the k-th of the lists in contents;
\* last.num keeps k and last.ret the conversation id given
AddBlocks(cid, role, contents, k) ==
    /\ pc = "idle" /\ last.k < MaxCalls
    /\ LET r == add_message(db, cid, role, contents[k], now)
       IN  /\ db' = r.db
           /\ last' = Called("add_blocks", role, "", k, cid, r.raised)
    /\ UNCHANGED <<now, owner, agent_vars, side_vars>>
\* get_relevant_memories reads and writes nothing: the call is remembered with
\* its arguments, last.text the query, last.num max_items, last.ret max_chars
GetRelevantMemories(user_id, query, max_items, max_chars) ==
    /\ pc = "idle" /\ last.k < MaxCalls
    /\ get_relevant_memories(db, user_id, query, max_items, max_chars) \in Seq(STRING)
    /\ last' = Called("get_relevant_memories", user_id, query, max_items, max_chars, FALSE)
    /\ UNCHANGED <<db, now, owner, agent_vars, side_vars>>
Tick ==
    /\ now < MaxClock
    /\ now' = now + 1
    /\ UNCHANGED <<db, owner, last, agent_vars, side_vars>>

MemContents == {"Vivo en Madrid", " Vivo en Madrid ", " \t\n", ""}
Confidences == {DEFAULT_CONFIDENCE, 6}
Titles == {"", "Viaje"}
\* the conversation ids a caller may name: none, those handed out, one never handed out
SomeConversationIds(d) == {NoneId} \cup (1..(d.seq.conversations + 1))
NextMem ==
    \/ \E u \in Users : CreateConversation(u, "")
    \/ \E u \in Users, c \in MemContents, k \in Confidences :
        SaveMemory(u, c, IF db.conversations = <<>> THEN NoneId ELSE db.seq.conversations, k)
    \/ \E u \in Users : ClearMemories(u)
    \/ Tick
SpecMem == Init /\ [][NextMem]_vars

(***************************************************************************)
(* Calls of save_memory side by side, each on a connection of its own, a   *)
(* step for each statement.  The SELECT runs outside a transaction; the    *)
(* UPDATE or INSERT opens one, which the end of the with block commits     *)
(* before the connection runs anything else, and SQLite lets one           *)
(* connection write at a time.                                             *)
(***************************************************************************)
\* lines 329-345: the content stripped and looked for
SaveSelect(c, user_id, content, source_conversation_id, confidence) ==
    /\ pc = "idle" /\ conn[c].pc = "idle"
    /\ \E stripped \in {Strip(content)} :
        conn' = [conn EXCEPT ![c] =
                    IF stripped = ""
                    THEN [NoSave EXCEPT !.pc = "done", !.user_id = user_id, !.raised = TRUE]
                    ELSE [pc |-> "selected", user_id |-> user_id, content |-> stripped,
                          source_conversation_id |-> source_conversation_id,
                          confidence |-> confidence,
                          existing |-> select_memory(db, user_id, stripped),
                          ret |-> NoneId, raised |-> FALSE]]
    /\ UNCHANGED <<db, now, owner, last, agent_vars, turn>>
\* lines 347-367: the row found is updated, or a row inserted, and the id returned
SaveWrite(c) ==
    /\ conn[c].pc = "selected"
    /\ \E r \in {IF conn[c].existing # NoneId
                  THEN [db |-> update_memory(db, conn[c].existing, conn[c].confidence, now),
                        ret |-> conn[c].existing, raised |-> FALSE]
                  ELSE insert_memory(db, conn[c].user_id, conn[c].content,
                                     conn[c].source_conversation_id, conn[c].confidence, now)} :
        /\ db' = r.db
        /\ conn' = [conn EXCEPT ![c].pc = "done", ![c].ret = r.ret, ![c].raised = r.raised]
        /\ owner' = IF r.raised THEN owner
                    ELSE [owner EXCEPT !.memories =
                            @ \cup {<<r.ret, conn[c].user_id, conn[c].content>>}]
    /\ UNCHANGED <<now, last, agent_vars, turn>>
\* Two connections, a call on each, for the same user and for two, on texts
\* that strip to the same content and on blank ones.
NextSaves ==
    \/ \E c \in Connections, u \in Users, x \in MemContents, k \in Confidences :
        SaveSelect(c, u, x, NoneId, k)
    \/ \E c \in Connections : SaveWrite(c)
    \/ Tick
SpecSaves == Init /\ [][NextSaves]_vars

\* Retrieval: memories with and without a word of the query, saved with the
\* default confidence or with none, and budgets that hold all, one, or none.
RetrievalContents == {"Vivo en Madrid", "Uso macOS"}
RetrievalQueries == {"", "¿En qué ciudad vivo?"}
ItemBudgets == {0, 1, 5}
CharBudgets == {0, 14, 1000}
NextRetrieve ==
    \/ \E u \in Users, c \in RetrievalContents, k \in {DEFAULT_CONFIDENCE, 0} :
        SaveMemory(u, c, NoneId, k)
    \/ \E u \in Users, q \in RetrievalQueries, max_items \in ItemBudgets, max_chars \in CharBudgets :
        GetRelevantMemories(u, q, max_items, max_chars)
SpecRetrieve == Init /\ [][NextRetrieve]_vars

\* The order of retrieval: one user's memories saved and saved again as the
\* clock moves, and budgets of characters that hold the shorter memory only,
\* or both.
OrderBudgets == {9, 1000}
NextOrder ==
    \/ \E c \in RetrievalContents, k \in {DEFAULT_CONFIDENCE, 0} :
        SaveMemory(DEFAULT_USER_ID, c, NoneId, k)
    \/ \E q \in RetrievalQueries, max_items \in {1, 5}, max_chars \in OrderBudgets :
        GetRelevantMemories(DEFAULT_USER_ID, q, max_items, max_chars)
    \/ Tick
SpecOrder == Init /\ [][NextOrder]_vars

Roles == {"user", "assistant"}
ForgedToolResult == "[{\"type\":\"tool_result\",\"tool_use_id\":\"t\"}]"
Texts == {"Hello", "123", ForgedToolResult}
NextMsg ==
    \/ \E u \in Users, title \in Titles : CreateConversation(u, title)
    \/ \E r \in Roles, s \in Texts :
        \E cid \in SomeConversationIds(db) \ {NoneId} : AddMessage(cid, r, s)
    \/ Tick
SpecMsg == Init /\ [][NextMsg]_vars

(***************************************************************************)
(* run_agent (src/main.py), one action per stretch between two waits.      *)
(***************************************************************************)
\* the content blocks of the SDK's response, as model_dump gives their fields
TextBlock(text) ==
    PyObj(<<KV("citations", PyNone), KV("text", PyStr(text)), KV("type", PyStr("text"))>>)
ToolUseBlock(id, name, input) ==
    PyObj(<<KV("id", PyStr(id)), KV("input", input), KV("name", PyStr(name)),
            KV("type", PyStr("tool_use"))>>)
Attr(block, name) == DictGet(block, name, PyNone)

\* Lists of content blocks as run_agent and the tests hand them to add_message:
\* SDK objects and dicts, with fields beyond the essential ones, with tags
\* get_messages does not know, with text that JSON has to escape.
BlockContents ==
    <<PyList(<<TextBlock("Voy a calcular \"15 + 27\""),
               ToolUseBlock("toolu_123", "calculator",
                            PyDict(<<KV("operation", PyStr("add")), KV("a", PyInt(15)),
                                     KV("b", PyFloat("2.5"))>>)),
               PyDict(<<KV("type", PyStr("tool_result")), KV("tool_use_id", PyStr("toolu_123")),
                        KV("content", PyStr("17.5")), KV("is_error", PyBool(FALSE))>>)>>),
      PyList(<<PyDict(<<KV("type", PyStr("image")),
                        KV("source", PyDict(<<KV("media_type", PyStr("image/png")),
                                              KV("data", PyStr("aGk="))>>))>>),
               PyDict(<<KV("cache_control", PyNone), KV("text", PyStr("¿Qué tal?\n")),
                        KV("type", PyStr("text"))>>),
               PyObj(<<KV("signature", PyStr("s")), KV("thinking", PyStr("...")),
                       KV("type", PyStr("thinking"))>>)>>),
      PyList(<<PyDict(<<KV("type", PyStr("tool_result")), KV("tool_use_id", PyStr("t")),
                        KV("content", PyList(<<PyDict(<<KV("type", PyStr("text")),
                                                        KV("text", PyStr("22"))>>)>>))>>)>>)>>
NextBlocks ==
    \/ \E u \in Users : CreateConversation(u, "")
    \/ \E r \in Roles, k \in 1..Len(BlockContents) :
        \E cid \in SomeConversationIds(db) \ {NoneId} : AddBlocks(cid, r, BlockContents, k)
SpecBlocks == Init /\ [][NextBlocks]_vars

\* the resolution without the check of the conversation's owner
StartsNew_any_owner(d, cid, user_id) ==
    \/ cid = NoneId
    \/ get_conversation(d, cid) = <<>>
\* the resolution that takes every id given for an existing conversation
StartsNew_only_none(d, cid, user_id) == cid = NoneId
\* lines 133-140: whether a new conversation is started
StartsNew(d, cid, user_id) ==
    \/ cid = NoneId
    \/ get_conversation(d, cid) = <<>>
    \/ get_conversation(d, cid)[1].user_id # user_id
\* lines 158-159: the candidates saved one after the other
RECURSIVE SaveCandidates(_, _, _, _, _, _)
SaveCandidates(saves, user_id, candidates, i, conv, t) ==
    Only({
    IF i > Len(candidates) \/ r.raised THEN r
    ELSE Only({SaveCandidates(
                [db |-> s.db, raised |-> s.raised,
                 saved |-> IF s.raised THEN r.saved
                           ELSE r.saved \cup {<<s.ret, user_id, Strip(candidates[i])>>}],
                user_id, candidates, i + 1, conv, t)
               : s \in {save_memory(r.db, user_id, candidates[i], conv, DEFAULT_CONFIDENCE, t)}})
    : r \in {saves}})
\* lines 132-163
StartTurn(user_message, cid, system_prompt, user_id) ==
    /\ pc = "idle"
    /\ \E new \in {StartsNew(db, cid, user_id)},
          cc \in {create_conversation(db, "", user_id, now)} :
       \E conv \in {IF new THEN cc.ret ELSE cid},
          loaded \in {IF new THEN <<>> ELSE get_messages(db, cid)} :
       \E am \in {add_message(IF new THEN cc.db ELSE db, conv, "user", PyStr(user_message), now)} :
       \E sm \in {IF am.raised THEN [db |-> am.db, raised |-> TRUE, saved |-> {}]
                  ELSE SaveCandidates([db |-> am.db, raised |-> FALSE, saved |-> {}], user_id,
                                      extract_memory_candidates(user_message), 1, conv, now)} :
           /\ db' = sm.db
           /\ owner' = [owner EXCEPT
                            !.conversations = IF new THEN @ \cup {<<cc.ret, user_id>>} ELSE @,
                            !.memories = @ \cup sm.saved,
                            !.texts = IF am.raised THEN @ ELSE @ \cup {am.db.seq.messages}]
           /\ conversation_id' = conv
           /\ messages' = Append(loaded, [role |-> "user", content |-> PyStr(user_message)])
           /\ pc' = IF sm.raised THEN "raised" ELSE "loop"
    /\ args' = [user_message |-> user_message, conversation_id |-> cid,
                system_prompt |-> system_prompt, user_id |-> user_id]
    /\ iteration' = 0
    /\ hist' = NoHist(db)
    /\ used' = [used EXCEPT !.turns = @ + 1]
    /\ UNCHANGED <<now, last, request, ret, side_vars>>
\* the loop head with the bound off by one
Iterate_once_more ==
    /\ pc = "loop"
    /\ IF iteration <= max_iterations
       THEN \E budget \in {memory_budget(args.user_message)} :
            \E memory_snippets \in {get_relevant_memories(db, args.user_id, args.user_message,
                                                          budget[1], budget[2])} :
                /\ iteration' = iteration + 1
                /\ request' = [messages |-> messages,
                               system |-> build_system_prompt_with_memory(args.system_prompt,
                                                                          memory_snippets)]
                /\ hist' = [hist EXCEPT !.at_request = db, !.requests = @ + 1,
                                        !.response = NoResponse, !.dispatched = <<>>]
                /\ pc' = "await"
                /\ ret' = ret
       ELSE /\ pc' = "returned"
            /\ ret' = conversation_id
            /\ UNCHANGED <<iteration, request, hist>>
    /\ UNCHANGED <<db, now, owner, last, args, conversation_id, messages, used, side_vars>>
\* the loop with the candidates saved at the head of every iteration
Iterate_saves_again ==
    /\ pc = "loop"
    /\ IF iteration < max_iterations
       THEN \E sm \in {SaveCandidates([db |-> db, raised |-> FALSE, saved |-> {}], args.user_id,
                                       extract_memory_candidates(args.user_message), 1,
                                       conversation_id, now)} :
            \E budget \in {memory_budget(args.user_message)} :
            \E memory_snippets \in {get_relevant_memories(sm.db, args.user_id, args.user_message,
                                                          budget[1], budget[2])} :
                /\ db' = sm.db
                /\ iteration' = iteration + 1
                /\ request' = [messages |-> messages,
                               system |-> build_system_prompt_with_memory(args.system_prompt,
                                                                          memory_snippets)]
                /\ hist' = [hist EXCEPT !.at_request = sm.db, !.requests = @ + 1,
                                        !.response = NoResponse, !.dispatched = <<>>]
                /\ pc' = "await"
                /\ ret' = ret
       ELSE /\ pc' = "returned"
            /\ ret' = conversation_id
            /\ UNCHANGED <<db, iteration, request, hist>>
    /\ UNCHANGED <<now, owner, last, args, conversation_id, messages, used, side_vars>>
\* the loop with the memories put in the system prompt of the first request only
Iterate_memory_first_only ==
    /\ pc = "loop"
    /\ IF iteration < max_iterations
       THEN \E budget \in {memory_budget(args.user_message)} :
            \E memory_snippets \in {IF iteration = 0
                                    THEN get_relevant_memories(db, args.user_id, args.user_message,
                                                               budget[1], budget[2])
                                    ELSE <<>>} :
                /\ iteration' = iteration + 1
                /\ request' = [messages |-> messages,
                               system |-> build_system_prompt_with_memory(args.system_prompt,
                                                                          memory_snippets)]
                /\ hist' = [hist EXCEPT !.at_request = db, !.requests = @ + 1,
                                        !.response = NoResponse, !.dispatched = <<>>]
                /\ pc' = "await"
                /\ ret' = ret
       ELSE /\ pc' = "returned"
            /\ ret' = conversation_id
            /\ UNCHANGED <<iteration, request, hist>>
    /\ UNCHANGED <<db, now, owner, last, args, conversation_id, messages, used, side_vars>>
\* lines 166-199, to the request; lines 262-263 when the loop is over
Iterate ==
    /\ pc = "loop"
    /\ IF iteration < max_iterations
       THEN \E budget \in {memory_budget(args.user_message)} :
            \E memory_snippets \in {get_relevant_memories(db, args.user_id, args.user_message,
                                                          budget[1], budget[2])} :
                /\ iteration' = iteration + 1
                /\ request' = [messages |-> messages,
                               system |-> build_system_prompt_with_memory(args.system_prompt,
                                                                          memory_snippets)]
                /\ hist' = [hist EXCEPT !.at_request = db, !.requests = @ + 1,
                                        !.response = NoResponse, !.dispatched = <<>>]
                /\ pc' = "await"
                /\ ret' = ret
       ELSE /\ pc' = "returned"
            /\ ret' = conversation_id
            /\ UNCHANGED <<iteration, request, hist>>
    /\ UNCHANGED <<db, now, owner, last, args, conversation_id, messages, used, side_vars>>
\* lines 229-247: the blocks from the i-th on, with the results so far
RECURSIVE RunTools(_, _, _, _)
RunTools(blocks, i, results, t) ==
    Only({
    IF i > Len(blocks) \/ r.raised THEN r
    ELSE IF Attr(blocks[i], "type") # PyStr("tool_use") THEN RunTools(blocks, i + 1, r, t)
    ELSE Only({RunTools(blocks, i + 1,
                [raised |-> result.raised,
                 dispatched |-> Append(r.dispatched, Attr(blocks[i], "name").s),
                 tool_results |->
                    IF result.raised THEN r.tool_results
                    ELSE Append(r.tool_results,
                            PyDict(<<KV("type", PyStr("tool_result")),
                                     KV("tool_use_id", Attr(blocks[i], "id")),
                                     KV("content", PyStr(result.result))>>))],
                t)
               : result \in {execute_tool(Attr(blocks[i], "name").s, Attr(blocks[i], "input"), t)}})
    : r \in {results}})
\* What run_agent does with a response: the database, the working list, where
\* the call goes next, and the tools dispatched on the way.
\* end_turn handled without the store's add_message
OnEndTurn_not_persisted(d, conv, msgs, response, t) ==
    [db |-> d,
     messages |-> Append(msgs, [role |-> "assistant", content |-> response.content]),
     pc |-> "returned", dispatched |-> <<>>]
\* lines 205-215
OnEndTurn(d, conv, msgs, response, t) ==
    Only({[db |-> am.db,
           messages |-> Append(msgs, [role |-> "assistant", content |-> response.content]),
           pc |-> IF am.raised THEN "raised" ELSE "returned",
           dispatched |-> <<>>]
          : am \in {add_message(d, conv, "assistant", response.content, t)}})
\* lines 217-256
OnToolUse(d, conv, msgs, response, t) ==
    Only({
        IF am.raised
        THEN [db |-> am.db, messages |-> with_assistant, pc |-> "raised", dispatched |-> <<>>]
        ELSE Only({
            IF run.raised
            THEN [db |-> am.db, messages |-> with_assistant, pc |-> "raised",
                  dispatched |-> run.dispatched]
            ELSE Only({[db |-> am2.db,
                        messages |-> Append(with_assistant,
                                            [role |-> "user", content |-> PyList(run.tool_results)]),
                        pc |-> IF am2.raised THEN "raised" ELSE "loop",
                        dispatched |-> run.dispatched]
                       : am2 \in {add_message(am.db, conv, "user", PyList(run.tool_results), t)}})
            : run \in {RunTools(response.content.items, 1,
                               [raised |-> FALSE, dispatched |-> <<>>, tool_results |-> <<>>], t)}})
        : am \in {add_message(d, conv, "assistant", response.content, t)},
          with_assistant \in {Append(msgs, [role |-> "assistant", content |-> response.content])}})
\* any other stop reason handled with the response persisted
OnOther_persisted(d, conv, msgs, response, t) ==
    [db |-> add_message(d, conv, "assistant", response.content, t).db,
     messages |-> msgs, pc |-> "returned", dispatched |-> <<>>]
\* lines 258-260
OnOther(d, conv, msgs, response, t) ==
    [db |-> d, messages |-> msgs, pc |-> "returned", dispatched |-> <<>>]
\* lines 199-260: the response is in
Respond(response) ==
    /\ pc = "await"
    /\ \E h \in {IF response.stop_reason = "end_turn"
                 THEN OnEndTurn(db, conversation_id, messages, response, now)
                 ELSE IF response.stop_reason = "tool_use"
                 THEN OnToolUse(db, conversation_id, messages, response, now)
                 ELSE OnOther(db, conversation_id, messages, response, now)} :
        /\ db' = h.db
        /\ messages' = h.messages
        /\ pc' = h.pc
        /\ ret' = IF h.pc = "returned" THEN conversation_id ELSE ret
        /\ hist' = [hist EXCEPT !.response = response, !.dispatched = h.dispatched]
    /\ used' = [used EXCEPT !.tool_rounds = IF response.stop_reason = "tool_use" THEN @ + 1 ELSE @]
    /\ UNCHANGED <<now, owner, last, args, conversation_id, iteration, request, side_vars>>
\* line 191: the request raises (the network, the API), and run_agent with it
LLMError ==
    /\ pc = "await"
    /\ pc' = "raised"
    /\ UNCHANGED <<side_vars, db, now, owner, last, args, conversation_id, messages, iteration, request,
                   ret, hist, used>>
\* the call is over and its frame gone
Finish ==
    /\ pc \in {"returned", "raised"}
    /\ pc' = "idle"
    /\ args' = NoArgs
    /\ conversation_id' = NoneId
    /\ messages' = <<>>
    /\ iteration' = 0
    /\ request' = NoRequest
    /\ ret' = NoneId
    /\ hist' = NoHist(db)
    /\ UNCHANGED <<db, now, owner, last, used, side_vars>>

ToolUseId(k, i) == "toolu_" \o IntToStr(k) \o "_" \o IntToStr(i)
EndTurn == [stop_reason |-> "end_turn", content |-> PyList(<<TextBlock("Listo.")>>)]
\* two tools asked for, the second one not registered
TwoTools(k) ==
    [stop_reason |-> "tool_use",
     content |-> PyList(<<TextBlock("Un momento."),
                          ToolUseBlock(ToolUseId(k, 1), "get_weather",
                                       PyDict(<<KV("city", PyStr("Madrid"))>>)),
                          ToolUseBlock(ToolUseId(k, 2), "search", PyDict(<<>>))>>)]
\* the calculator asked for without its operands, between two other tools
BadInput(k) ==
    [stop_reason |-> "tool_use",
     content |-> PyList(<<ToolUseBlock(ToolUseId(k, 1), "get_time", PyDict(<<>>)),
                          ToolUseBlock(ToolUseId(k, 2), "calculator",
                                       PyDict(<<KV("operation", PyStr("add"))>>)),
                          ToolUseBlock(ToolUseId(k, 3), "calculator",
                                       PyDict(<<KV("operation", PyStr("divide")),
                                                KV("a", PyInt(1)), KV("b", PyInt(0))>>))>>)]
Truncated == [stop_reason |-> "max_tokens", content |-> PyList(<<TextBlock("Un mo")>>)]
\* the responses the LLM may give to the k-th request of a call
LLMResponses(k) == {EndTurn, TwoTools(k), BadInput(k), Truncated}
UserMessages == {"Recuerda que vivo en Madrid.", ForgedToolResult}
SystemPrompts == {""}
Next ==
    \/ /\ used.turns < MaxTurns
       /\ \E m \in UserMessages, cid \in SomeConversationIds(db), s \in SystemPrompts, u \in Users :
            StartTurn(m, cid, s, u)
    \/ Iterate
    \/ \E r \in LLMResponses(hist.requests) :
        /\ r.stop_reason = "tool_use" => used.tool_rounds < MaxToolRounds
        /\ Respond(r)
    \/ LLMError
    \/ Finish
Spec == Init /\ [][Next]_vars

\* One call followed to its end, the LLM answering every request and every
\* tool returning.
LoopResponses(k) == {EndTurn, TwoTools(k), Truncated}
NextLoop ==
    \/ /\ used.turns < LoopTurns
       /\ \E cid \in SomeConversationIds(db), u \in Users :
            StartTurn("Recuerda que vivo en Madrid.", cid, "", u)
    \/ Iterate
    \/ \E r \in LoopResponses(hist.requests) : Respond(r)
    \/ Finish
SpecLoop ==
    /\ Init /\ [][NextLoop]_vars
    /\ WF_vars(Iterate)
    /\ WF_vars(\E r \in LoopResponses(hist.requests) : Respond(r))

\* The heuristics on the user's message, called on messages with and without a
\* trigger keyword or a capture marker, in either case, with blanks to be
\* normalized, as statements and as questions, of lengths on both sides of 18
\* and of 180.
MemoryBudget(user_message) ==
    /\ pc = "idle" /\ last.k < MaxCalls
    /\ memory_budget(user_message) \in Nat \X Nat
    /\ last' = Called("memory_budget", "", user_message, 0, NoneId, FALSE)
    /\ UNCHANGED <<db, now, owner, agent_vars, side_vars>>
ExtractMemoryCandidates(user_message) ==
    /\ pc = "idle" /\ last.k < MaxCalls
    /\ extract_memory_candidates(user_message) \in Seq(STRING)
    /\ last' = Called("extract_memory_candidates", "", user_message, 0, NoneId, FALSE)
    /\ UNCHANGED <<db, now, owner, agent_vars, side_vars>>
Filler50 == "xxxxxxxxxxxxxxxxxxxxxxxxxxxxxxxxxxxxxxxxxxxxxxxxxx"
Filler == Filler50 \o Filler50 \o Filler50 \o Filler50
HeuristicHeads ==
    {"", "Recuerda que ", "Recuerda que vivo en ", "COMO TE DIJE ", "vivo en ", "  Vivo   en  "}
HeuristicLengths == {10, 17, 18, 180, 181}
HeuristicEndings == {".", "?"}
\* a message of n characters (of more when the head is longer)
HeuristicMessage(head, n, ending) ==
    head \o SubSeq(Filler, 1, Max2(0, n - Len(head) - 1)) \o ending
HeuristicMessages ==
    {HeuristicMessage(h, n, e) : h \in HeuristicHeads, n \in HeuristicLengths, e \in HeuristicEndings}
NextHeuristics ==
    \/ \E m \in HeuristicMessages : MemoryBudget(m)
    \/ \E m \in HeuristicMessages : ExtractMemoryCandidates(m)
SpecHeuristics == Init /\ [][NextHeuristics]_vars

\* One call with the clock moving under it, in a store where a front end may
\* have saved, as the first memory, one of those the call extracts.
NextTurn ==
    \/ /\ db.memories = <<>>
       /\ \E u \in Users : SaveMemory(u, "vivo en Madrid", NoneId, DEFAULT_CONFIDENCE)
    \/ /\ used.turns < LoopTurns
       /\ \E cid \in SomeConversationIds(db), u \in Users :
            StartTurn("Recuerda que vivo en Madrid.", cid, "", u)
    \/ Iterate
    \/ \E r \in LoopResponses(hist.requests) :
        /\ r.stop_reason = "tool_use" => used.tool_rounds < MaxToolRounds
        /\ Respond(r)
    \/ Finish
    \/ Tick
SpecTurn == Init /\ [][NextTurn]_vars

(***************************************************************************)
(* Calls of run_agent side by side, each beginning a conversation of its   *)
(* own, a step for each call on the store: the store opens a connection    *)
(* and commits within each of its methods, and SQLite lets one connection  *)
(* write at a time.                                                        *)
(***************************************************************************)
\* what p handed to add_message, added to its history when the call returned
Handed(p, am, role, content) ==
    IF am.raised THEN turn[p].added
    ELSE Append(turn[p].added, [role |-> role, content |-> serialize_content(content)])
\* lines 133-136: conversation_id is None
TurnCreate(p, user_message, system_prompt, user_id) ==
    /\ pc = "idle" /\ turn[p].pc = "idle"
    /\ \E cc \in {create_conversation(db, "", user_id, now)} :
        /\ db' = cc.db
        /\ owner' = [owner EXCEPT !.conversations = @ \cup {<<cc.ret, user_id>>}]
        /\ turn' = [turn EXCEPT ![p] =
                        [NoTurn EXCEPT !.pc = "created", !.user_message = user_message,
                                       !.system_prompt = system_prompt, !.user_id = user_id,
                                       !.conversation_id = cc.ret]]
    /\ UNCHANGED <<now, last, agent_vars, conn>>
\* lines 152-155, and line 157 when there is no candidate
TurnAddUser(p) ==
    /\ turn[p].pc = "created"
    /\ \E am \in {add_message(db, turn[p].conversation_id, "user",
                              PyStr(turn[p].user_message), now)} :
        /\ db' = am.db
        /\ owner' = IF am.raised THEN owner
                    ELSE [owner EXCEPT !.texts = @ \cup {am.db.seq.messages}]
        /\ turn' = [turn EXCEPT
                        ![p].messages = Append(@, [role |-> "user",
                                                   content |-> PyStr(turn[p].user_message)]),
                        ![p].added = Handed(p, am, "user", PyStr(turn[p].user_message)),
                        ![p].candidate = 1,
                        ![p].pc = IF am.raised THEN "raised"
                                  ELSE IF extract_memory_candidates(turn[p].user_message) = <<>>
                                  THEN "loop" ELSE "save"]
    /\ UNCHANGED <<now, last, agent_vars, conn>>
\* lines 157-159: the next candidate saved
TurnSave(p) ==
    /\ turn[p].pc = "save"
    /\ \E candidates \in {extract_memory_candidates(turn[p].user_message)} :
       \E sm \in {save_memory(db, turn[p].user_id, candidates[turn[p].candidate],
                              turn[p].conversation_id, DEFAULT_CONFIDENCE, now)} :
        /\ db' = sm.db
        /\ owner' = IF sm.raised THEN owner
                    ELSE [owner EXCEPT !.memories =
                            @ \cup {<<sm.ret, turn[p].user_id,
                                      Strip(candidates[turn[p].candidate])>>}]
        /\ turn' = [turn EXCEPT
                        ![p].candidate = @ + 1,
                        ![p].pc = IF sm.raised THEN "raised"
                                  ELSE IF turn[p].candidate < Len(candidates) THEN "save"
                                  ELSE "loop"]
    /\ UNCHANGED <<now, last, agent_vars, conn>>
\* lines 166-199, to the request; lines 262-263 when the loop is over
TurnIterate(p) ==
    /\ turn[p].pc = "loop"
    /\ turn' = [turn EXCEPT ![p] =
                IF turn[p].iteration < max_iterations
                THEN Only({[turn[p] EXCEPT
                              !.iteration = @ + 1,
                              !.system = build_system_prompt_with_memory(
                                            turn[p].system_prompt,
                                            get_relevant_memories(db, turn[p].user_id,
                                                                  turn[p].user_message,
                                                                  budget[1], budget[2])),
                              !.pc = "await"]
                           : budget \in {memory_budget(turn[p].user_message)}})
                ELSE [turn[p] EXCEPT !.pc = "returned"]]
    /\ UNCHANGED <<db, now, owner, last, agent_vars, conn>>
\* lines 199-226 and 258-260: the response is in; when it asks for tools the
\* assistant message is stored and the tools are still to run
TurnRespond(p, response) ==
    /\ turn[p].pc = "await"
    /\ IF response.stop_reason \in {"end_turn", "tool_use"}
       THEN \E am \in {add_message(db, turn[p].conversation_id, "assistant",
                                   response.content, now)} :
            /\ db' = am.db
            /\ turn' = [turn EXCEPT
                            ![p].messages = Append(@, [role |-> "assistant",
                                                       content |-> response.content]),
                            ![p].added = Handed(p, am, "assistant", response.content),
                            ![p].response = response,
                            ![p].pc = IF am.raised THEN "raised"
                                      ELSE IF response.stop_reason = "end_turn" THEN "returned"
                                      ELSE "tools"]
       ELSE /\ db' = db
            /\ turn' = [turn EXCEPT ![p].response = response, ![p].pc = "returned"]
    /\ UNCHANGED <<now, owner, last, agent_vars, conn>>
\* lines 228-256: the tools run and their results are stored
TurnTools(p) ==
    /\ turn[p].pc = "tools"
    /\ \E run \in {RunTools(turn[p].response.content.items, 1,
                            [raised |-> FALSE, dispatched |-> <<>>, tool_results |-> <<>>],
                            now)} :
        IF run.raised
        THEN /\ db' = db
             /\ turn' = [turn EXCEPT ![p].pc = "raised"]
        ELSE \E am \in {add_message(db, turn[p].conversation_id, "user",
                                    PyList(run.tool_results), now)} :
             /\ db' = am.db
             /\ turn' = [turn EXCEPT
                            ![p].messages = Append(@, [role |-> "user",
                                                       content |-> PyList(run.tool_results)]),
                            ![p].added = Handed(p, am, "user", PyList(run.tool_results)),
                            ![p].pc = IF am.raised THEN "raised" ELSE "loop"]
    /\ UNCHANGED <<now, owner, last, agent_vars, conn>>
\* Two calls, each with a message of its own, for the same user or for two.
TurnMessage == [p \in Turns |-> IF p = "T1" THEN "Recuerda que vivo en Madrid." ELSE "Hola"]
TurnUsers == [p \in Turns |-> IF p = "T1" THEN {DEFAULT_USER_ID} ELSE Users]
NextTurns ==
    \/ \E p \in Turns : \E u \in TurnUsers[p] : TurnCreate(p, TurnMessage[p], "", u)
    \/ \E p \in Turns : TurnAddUser(p)
    \/ \E p \in Turns : TurnSave(p)
    \/ \E p \in Turns : TurnIterate(p)
    \/ \E p \in Turns : \E r \in LLMResponses(turn[p].iteration) :
        /\ r.stop_reason = "tool_use" => turn[p].iteration <= MaxToolRounds
        /\ TurnRespond(p, r)
    \/ \E p \in Turns : TurnTools(p)
SpecTurns == Init /\ [][NextTurns]_vars

(***************************************************************************)
(* run_agent's contracts.                                                  *)
(***************************************************************************)
MessagesOf(d, c) ==
    LET Mine(r) == r.conversation_id = c
    IN  SelectSeq(d.messages, Mine)
InCall == pc \in {"loop", "await", "returned", "raised"}
\* the call in progress named a conversation that did not exist when the call
\* was made, or one created for another user
Fallback ==
    /\ InCall
    /\ args.conversation_id # NoneId
    /\ \/ args.conversation_id \notin ConversationIds(hist.at_call)
       \/ <<args.conversation_id, args.user_id>> \notin owner.conversations
\* C1: when run_agent is given a conversation id that does not exist or belongs
\* to another user, the conversation it works on is one created by this call
\* for the calling user, every message row written since the call began is in
\* that conversation (so no other conversation gained a message), and the id
\* returned is that conversation's.
C1_NoForeignAttach ==
    Fallback =>
        /\ conversation_id \notin ConversationIds(hist.at_call)
        /\ get_conversation(db, conversation_id) # <<>>
        /\ get_conversation(db, conversation_id)[1].user_id = args.user_id
        /\ ConversationOwners(conversation_id) = {args.user_id}
        /\ Len(db.messages) > Len(hist.at_call.messages)
        /\ SubSeq(db.messages, 1, Len(hist.at_call.messages)) = hist.at_call.messages
        /\ \A i \in (Len(hist.at_call.messages) + 1)..Len(db.messages) :
                db.messages[i].conversation_id = conversation_id
        /\ \A c \in ConversationIds(hist.at_call) : MessagesOf(db, c) = MessagesOf(hist.at_call, c)
        /\ pc = "returned" => ret = conversation_id
\* a call that named another user's conversation, which holds messages, has
\* returned after writing two messages
C1_Witness ==
    /\ pc = "returned"
    /\ args.conversation_id \in ConversationIds(hist.at_call)
    /\ <<args.conversation_id, args.user_id>> \notin owner.conversations
    /\ MessagesOf(hist.at_call, args.conversation_id) # <<>>
    /\ Len(db.messages) >= Len(hist.at_call.messages) + 2
    /\ ret # args.conversation_id

IsBlock(b, type) == b.t \in {"dict", "obj"} /\ Attr(b, "type") = PyStr(type)
BlocksOf(content, type) ==
    IF content.t # "list" THEN <<>>
    ELSE LET Is(b) == IsBlock(b, type)
         IN  SelectSeq(content.items, Is)
\* every tool_result of ms answers a tool_use of the assistant message before it
Paired(ms) ==
    \A i \in 1..Len(ms) :
        \A k \in 1..Len(BlocksOf(ms[i].content, "tool_result")) :
            /\ i > 1
            /\ ms[i - 1].role = "assistant"
            /\ \E j \in 1..Len(BlocksOf(ms[i - 1].content, "tool_use")) :
                Attr(BlocksOf(ms[i - 1].content, "tool_use")[j], "id")
                    = Attr(BlocksOf(ms[i].content, "tool_result")[k], "tool_use_id")
\* C4: in the list of messages every request carries, and in what get_messages
\* returns for every conversation, each tool_result block names the id of a
\* tool_use block of the assistant message just before it.
C4_Pairing ==
    /\ pc = "await" => Paired(request.messages)
    /\ \A c \in ConversationIds(db) : Paired(get_messages(db, c))

\* C5: once a tool_use response with n tool_use blocks is handled, the working
\* list and the store each hold two messages more than when the request was
\* made: the assistant message with the response's content, then one user
\* message of n tool_result blocks that carry the ids of the tool_use blocks,
\* in their order.
C5_TwoMessages ==
    hist.response.stop_reason = "tool_use" =>
        LET n == Len(request.messages)
            m == Len(hist.at_request.messages)
            uses == BlocksOf(hist.response.content, "tool_use")
        IN  /\ Len(messages) = n + 2
            /\ SubSeq(messages, 1, n) = request.messages
            /\ messages[n + 1] = [role |-> "assistant", content |-> hist.response.content]
            /\ messages[n + 2].role = "user"
            /\ messages[n + 2].content.t = "list"
            /\ Len(messages[n + 2].content.items) = Len(uses)
            /\ \A k \in 1..Len(uses) :
                /\ IsBlock(messages[n + 2].content.items[k], "tool_result")
                /\ Attr(messages[n + 2].content.items[k], "tool_use_id") = Attr(uses[k], "id")
            /\ Len(db.messages) = m + 2
            /\ SubSeq(db.messages, 1, m) = hist.at_request.messages
            /\ db.messages[m + 1].conversation_id = conversation_id
            /\ db.messages[m + 1].role = "assistant"
            /\ db.messages[m + 1].content = serialize_content(hist.response.content)
            /\ db.messages[m + 2].conversation_id = conversation_id
            /\ db.messages[m + 2].role = "user"
            /\ db.messages[m + 2].content = serialize_content(messages[n + 2].content)

\* C6: a call never issues more than max_iterations requests, a call that has
\* returned has returned the id of its conversation, and when the LLM answers
\* every request and the tools return, a call that has entered its loop returns.
C6_Terminates ==
    /\ [](hist.requests <= max_iterations)
    /\ [](pc = "returned" => ret = conversation_id)
    /\ (pc = "loop" ~> pc = "returned")
\* the loop ran out: ten requests, each answered by a tool_use
C6_Witness ==
    /\ pc = "returned"
    /\ hist.requests = max_iterations
    /\ hist.response.stop_reason = "tool_use"
    /\ ret = conversation_id

\* C7: from the first request of a call on, whether the call goes on, returns
\* or is cut off by an exception, the store holds the user message as the row
\* that follows what the conversation held when the call was made; when the
\* first request is issued that row is the conversation's last.
C7_Durable ==
    (InCall /\ hist.requests >= 1) =>
        LET before == Len(MessagesOf(hist.at_call, conversation_id))
            rows == MessagesOf(db, conversation_id)
            sent == MessagesOf(hist.at_request, conversation_id)
        IN  /\ Len(rows) > before
            /\ rows[before + 1].role = "user"
            /\ rows[before + 1].content = args.user_message
            /\ hist.requests = 1 =>
                /\ Len(sent) = before + 1
                /\ sent[before + 1] = rows[before + 1]
\* the first request of a call raised, and the user message is the last row
C7_Witness ==
    /\ pc = "raised" /\ hist.requests = 1 /\ hist.response = NoResponse
    /\ LET rows == MessagesOf(db, conversation_id)
       IN  rows # <<>> /\ rows[Len(rows)].content = args.user_message
                       /\ rows[Len(rows)].role = "user"

\* the call is over: nothing of it is left but its end
CallEnds == pc' = "idle" /\ hist'.requests = 0 /\ hist'.dispatched = <<>>
\* C8: once a response with stop reason end_turn is handled, the call has
\* returned the id of its conversation, the working list and the store each
\* hold one message more than when the request was made, the assistant message
\* with the response's content, no tool was dispatched, and the call takes no
\* further step.
C8_EndTurn ==
    /\ [](hist.response.stop_reason = "end_turn" =>
            /\ pc = "returned"
            /\ ret = conversation_id
            /\ messages = Append(request.messages,
                                 [role |-> "assistant", content |-> hist.response.content])
            /\ Len(db.messages) = Len(hist.at_request.messages) + 1
            /\ SubSeq(db.messages, 1, Len(hist.at_request.messages)) = hist.at_request.messages
            /\ db.messages[Len(db.messages)].conversation_id = conversation_id
            /\ db.messages[Len(db.messages)].role = "assistant"
            /\ db.messages[Len(db.messages)].content = serialize_content(hist.response.content)
            /\ hist.dispatched = <<>>)
    /\ [][hist.response.stop_reason = "end_turn" => CallEnds]_vars
\* a call returned on end_turn after a round of tools
C8_Witness ==
    /\ hist.response.stop_reason = "end_turn"
    /\ pc = "returned"
    /\ hist.requests = 2
    /\ Len(messages) >= 4

\* C9: once a response with any other stop reason is handled, the call has
\* returned the id of its conversation, and the database, the working list
\* and the tools dispatched are what they were when the request was made.
C9_OtherStop ==
    hist.response.stop_reason \notin {"", "end_turn", "tool_use"} =>
        /\ pc = "returned"
        /\ ret = conversation_id
        /\ db = hist.at_request
        /\ messages = request.messages
        /\ hist.dispatched = <<>>
\* a call returned on max_tokens after a round of tools
C9_Witness ==
    /\ hist.response.stop_reason = "max_tokens"
    /\ pc = "returned"
    /\ hist.requests = 2
    /\ Len(db.messages) >= 3

(***************************************************************************)
(* The store's contracts.                                                  *)
(***************************************************************************)
MemoryRow(d, id) == CHOOSE r \in {d.memories[i] : i \in 1..Len(d.memories)} : r.id = id
HasPair(d, user_id, content) ==
    \E i \in 1..Len(d.memories) :
        d.memories[i].user_id = user_id /\ d.memories[i].content = content
OneRowPerPair ==
    \A i, j \in 1..Len(db.memories) :
        (db.memories[i].user_id = db.memories[j].user_id
            /\ db.memories[i].content = db.memories[j].content) => i = j
\* a step that is a call of save_memory which returned an id
SaveStep == last'.k # last.k /\ last'.op = "save_memory" /\ ~last'.raised
SaveTwice ==
    SaveStep =>
        /\ \A i \in 1..Len(db.memories) :
            (db.memories[i].user_id = last'.user /\ db.memories[i].content = Strip(last'.text)) =>
                /\ last'.ret = db.memories[i].id
                /\ MemoryRow(db', last'.ret).confidence = Max2(db.memories[i].confidence, last'.num)
        /\ ~HasPair(db, last'.user, Strip(last'.text)) =>
                MemoryRow(db', last'.ret).confidence = last'.num
\* C2: there is never more than one memory row for a (user, content) pair, and
\* a save_memory of a pair that is already stored returns the id of the stored
\* row and leaves it with the larger of the stored confidence and the new one
\* (a first save stores the confidence it is given, so after two saves the
\* row holds the max of the two).
C2_Dedup == []OneRowPerPair /\ [][SaveTwice]_vars
\* a second save of a pair, with the smaller confidence, has kept the larger
C2_Witness ==
    /\ last.op = "save_memory" /\ ~last.raised
    /\ \E x \in owner.memories : x[1] = last.ret
    /\ HasPair(db, last.user, Strip(last.text))
    /\ MemoryRow(db, last.ret).confidence > last.num
    /\ MemoryRow(db, last.ret).updated_at > MemoryRow(db, last.ret).created_at

Queries == {"", "¿En qué ciudad vivo?", "Madrid"}
\* C3: whatever was saved under one user is never returned to another: every
\* memory get_relevant_memories and list_memories return for a user has an id
\* save_memory handed to that user only (and the text that user saved), every
\* conversation list_conversations_by_user returns was created for that user,
\* and no memory id was handed to two users.
C3_Isolation ==
    /\ \A u \in Users :
        /\ \A q \in Queries :
            LET selected == SelectedMemories(db, u, q, memory_budget(q)[1], memory_budget(q)[2])
            IN  \A i \in 1..Len(selected) :
                    /\ MemoryOwners(selected[i].id) = {u}
                    /\ <<selected[i].id, u, selected[i].text>> \in owner.memories
        /\ \A i \in 1..Len(list_memories(db, u, DEFAULT_LIMIT)) :
                MemoryOwners(list_memories(db, u, DEFAULT_LIMIT)[i].id) = {u}
        /\ \A i \in 1..Len(list_conversations_by_user(db, u)) :
                ConversationOwners(list_conversations_by_user(db, u)[i].id) = {u}
    /\ \A x, y \in owner.memories : x[1] = y[1] => x[2] = y[2]
\* two users have saved the same content, each is returned its own row, and
\* one of them has a conversation listed
C3_Witness ==
    \E x, y \in owner.memories :
        /\ x[2] # y[2] /\ x[3] = y[3] /\ x[1] # y[1]
        /\ get_relevant_memories(db, x[2], "Madrid", 3, 550) = <<x[3]>>
        /\ get_relevant_memories(db, y[2], "Madrid", 3, 550) = <<y[3]>>
        /\ Len(list_memories(db, x[2], DEFAULT_LIMIT)) = 1
        /\ list_conversations_by_user(db, x[2]) # <<>>

\* C10: after add_message(c, r, s) with s a text, the last entry get_messages(c)
\* returns has role r and the string s as its content.
C10_RoundTrip ==
    (last.op = "add_message" /\ ~last.raised) =>
        LET ms == get_messages(db, last.ret)
        IN  ms # <<>> /\ ms[Len(ms)] = [role |-> last.user, content |-> PyStr(last.text)]
\* the round trip where it holds: the text is not a JSON document
C10_Witness ==
    /\ last.op = "add_message" /\ ~last.raised /\ last.text = "Hello"
    /\ get_messages(db, last.ret)[Len(get_messages(db, last.ret))].content = PyStr("Hello")

\* the fields get_messages keeps of a block with a tag it knows
EssentialFields(type) ==
    IF type = PyStr("text") THEN {"type", "text"}
    ELSE IF type = PyStr("tool_use") THEN {"type", "id", "name", "input"}
    ELSE IF type = PyStr("tool_result") THEN {"type", "tool_use_id", "content"}
    ELSE {}
\* got is what the block sent is to come back as: a dict of exactly the
\* essential fields with the values sent, or the block itself when its tag is
\* not known
ComesBack(sent, got) ==
    LET fields == EssentialFields(Attr(sent, "type"))
    IN  IF fields = {}
        THEN got = (IF sent.t = "obj" THEN model_dump(sent) ELSE sent)
        ELSE /\ got.t = "dict"
             /\ Len(got.items) = Cardinality(fields)
             /\ {got.items[j].k : j \in 1..Len(got.items)} = fields
             /\ \A f \in fields : HasKey(sent, f) /\ DictGet(got, f, PyNone) = Attr(sent, f)
Retrieved == get_relevant_memories(db, last.user, last.text, last.num, last.ret)
RECURSIVE TotalLen(_, _)
TotalLen(texts, i) == IF i > Len(texts) THEN 0 ELSE Len(texts[i]) + TotalLen(texts, i + 1)
\* C12: the lengths of the memories a call of get_relevant_memories returns
\* add up to max_chars at most (max_chars a budget, not negative).
C12_CharBudget ==
    last.op = "get_relevant_memories" => TotalLen(Retrieved, 1) <= last.ret
\* the user has both memories, 23 characters, and a budget of 14 let one through
C12_Witness ==
    /\ last.op = "get_relevant_memories" /\ last.ret = 14 /\ last.num = 5
    /\ Len(list_memories(db, last.user, DEFAULT_LIMIT)) = 2
    /\ Len(Retrieved) = 1

\* C13: a call of get_relevant_memories returns max_items memories at most,
\* whatever integer max_items is, 0 included.
C13_ItemBudget ==
    last.op = "get_relevant_memories" => Len(Retrieved) <= last.num

\* C14: when the query has a keyword, every memory get_relevant_memories
\* returns is a memory of that user that holds one of the keywords.
C14_RelevanceFilter ==
    (last.op = "get_relevant_memories" /\ QueryWords(last.text) # <<>>) =>
        \A i \in 1..Len(Retrieved) :
            /\ HasPair(db, last.user, Retrieved[i])
            /\ \E k \in 1..Len(QueryWords(last.text)) :
                    Contains(Lower(Retrieved[i]), QueryWords(last.text)[k])

\* C15: a call of run_agent that names a conversation id the store does not
\* hold gets through the resolution without raising (it reaches its loop) and
\* has added one conversation to the store, the one it works on, for its user.
C15_ResolveMissing ==
    (InCall /\ args.conversation_id # NoneId
            /\ args.conversation_id \notin ConversationIds(hist.at_call)) =>
        /\ hist.requests = 0 => pc = "loop"
        /\ Len(db.conversations) = Len(hist.at_call.conversations) + 1
        /\ SubSeq(db.conversations, 1, Len(hist.at_call.conversations))
                = [i \in 1..Len(hist.at_call.conversations) |->
                    [hist.at_call.conversations[i] EXCEPT
                        !.updated_at = db.conversations[i].updated_at]]
        /\ db.conversations[Len(db.conversations)].id = conversation_id
        /\ db.conversations[Len(db.conversations)].user_id = args.user_id
        /\ conversation_id \notin ConversationIds(hist.at_call)
\* a second call named an id never handed out, and returned
C15_Witness ==
    /\ pc = "returned"
    /\ args.conversation_id \notin ConversationIds(hist.at_call)
    /\ args.conversation_id # NoneId
    /\ Len(hist.at_call.conversations) = 1
    /\ Len(db.conversations) = 2
    /\ ret = 2

\* the messages handed to add_message for a conversation so far, in the order
\* of their rows: a text as the string it was, a list of blocks as the list of
\* what each block is kept as
PersistedMessages(d, c) ==
    Only({List([i \in 1..Len(rows) |->
                    [role |-> rows[i].role,
                     content |-> IF rows[i].id \in owner.texts THEN PyStr(rows[i].content)
                                 ELSE ParseContent(rows[i].content)]])
          : rows \in {MessagesOf(d, c)}})
\* run_agent is called with the id of a conversation of the caller's
Resumes ==
    /\ pc = "idle" /\ pc' # "idle"
    /\ get_conversation(db, args'.conversation_id) # <<>>
    /\ get_conversation(db, args'.conversation_id)[1].user_id = args'.user_id
\* C16: whenever run_agent returns, on end_turn, on another stop reason or on
\* the bound of its loop, the id returned names a conversation of the caller's
\* user id; and a call that names a conversation of the caller's creates no
\* conversation, works on the one named, and starts from the messages
\* persisted for it so far, in the order of insertion, followed by the new
\* user message.
C16_Resumable ==
    /\ [](pc = "returned" =>
            /\ get_conversation(db, ret) # <<>>
            /\ get_conversation(db, ret)[1].user_id = args.user_id)
    /\ [][Resumes =>
            /\ conversation_id' = args'.conversation_id
            /\ Len(db'.conversations) = Len(db.conversations)
            /\ messages' = Append(PersistedMessages(db, args'.conversation_id),
                                  [role |-> "user", content |-> PyStr(args'.user_message)])]_vars

IsPrefix(s, t) == Len(s) <= Len(t) /\ SubSeq(t, 1, Len(s)) = s
\* C17: no step of the store or of run_agent, a step that aborts the call
\* included, takes a row from the messages table or changes one or moves one,
\* or takes a conversation away: the rows before the step are the first rows
\* after it, every conversation is still there, and what get_messages returned
\* for it before the step begins what it returns after (get_messages reads the
\* rows of the conversation and nothing else, so the lists are compared for
\* the conversations whose rows the step touched).
C17_AppendOnly ==
    [][/\ IsPrefix(db.messages, db'.messages)
       /\ \A c \in ConversationIds(db) :
            /\ c \in ConversationIds(db')
            /\ MessagesOf(db', c) # MessagesOf(db, c) =>
                IsPrefix(get_messages(db, c), get_messages(db', c))]_vars
\* a call that went on with a conversation holding messages, wrote to it and
\* was aborted by a tool
C17_Witness ==
    /\ pc = "raised"
    /\ hist.dispatched # <<>>
    /\ MessagesOf(hist.at_call, conversation_id) # <<>>
    /\ Len(MessagesOf(db, conversation_id)) = Len(MessagesOf(hist.at_call, conversation_id)) + 2

\* run_agent has got as far as its loop
TurnStarts == pc = "idle" /\ pc' = "loop"
\* C18: the step that takes a call of run_agent to its loop leaves the user
\* message stored and every candidate extracted from it held as a memory of
\* the call's user, written at that time; the memory rows it adds or changes
\* are those of the call's user with a candidate as content, and a row it adds
\* names the call's conversation as its source.  No later step of the call,
\* whatever the number of requests and tool rounds, changes the memories.
C18_SavedOnce ==
    /\ [][TurnStarts =>
            LET cands == extract_memory_candidates(args'.user_message)
                wanted == {Strip(cands[i]) : i \in 1..Len(cands)}
                before == Len(db.memories)
                m == db'.memories
                touched == {i \in 1..Len(m) : i > before \/ m[i] # db.memories[i]}
                stored == db'.messages[Len(db'.messages)]
            IN  /\ db'.messages # db.messages
                /\ stored.conversation_id = conversation_id'
                /\ stored.role = "user"
                /\ stored.content = args'.user_message
                /\ Len(m) >= before
                /\ \A w \in wanted :
                    Cardinality({i \in 1..Len(m) : /\ m[i].user_id = args'.user_id
                                                   /\ m[i].content = w
                                                   /\ m[i].updated_at = now}) = 1
                /\ \A i \in touched :
                    /\ m[i].user_id = args'.user_id
                    /\ m[i].content \in wanted
                    /\ i > before => /\ m[i].source_conversation_id = conversation_id'
                                     /\ m[i].created_at = now]_vars
    /\ [][pc # "idle" => db'.memories = db.memories]_vars
\* the first request of a call is out after the clock moved; the call refreshed
\* a memory its user had and added one with its conversation as the source
C18_Witness ==
    /\ pc = "await" /\ hist.requests = 1 /\ now = 1
    /\ \E i, j \in 1..Len(db.memories) :
        /\ db.memories[i].user_id = args.user_id
        /\ db.memories[i].created_at = 0
        /\ db.memories[i].updated_at = 1
        /\ db.memories[i].source_conversation_id = NoneId
        /\ db.memories[j].user_id = args.user_id
        /\ db.memories[j].created_at = 1
        /\ db.memories[j].source_conversation_id = conversation_id

Range(s) == {s[i] : i \in 1..Len(s)}
Registered(block) == \E e \in TOOL_EXECUTORS : e[1] = Attr(block, "name").s
\* the response handled last asked for a tool the registry does not hold, and
\* the tools it asked for that the registry holds take their input
AsksUnregistered ==
    /\ hist.response.stop_reason = "tool_use"
    /\ \E b \in Range(BlocksOf(hist.response.content, "tool_use")) : ~Registered(b)
    /\ \A b \in Range(BlocksOf(hist.response.content, "tool_use")) :
        Registered(b) => ~execute_tool(Attr(b, "name").s, Attr(b, "input"), now).raised
\* C19: when a tool_use response names a tool that is not registered (and no
\* registered tool it names raises), run_agent does not raise and does not
\* return: it is back at the head of its loop, the last message of its working
\* list is the user message of tool results, in which the block for that
\* tool_use id has the content "Tool not found: <name>", that message is the
\* last row stored for the conversation, and the next step of the call, while
\* the loop's bound allows one, is a request to the LLM carrying the list.
C19_ToolNotFound ==
    /\ [][(pc = "await" /\ AsksUnregistered') =>
            LET uses == BlocksOf(hist'.response.content, "tool_use")
                results == messages'[Len(messages')]
                stored == db'.messages[Len(db'.messages)]
            IN  /\ pc' = "loop"
                /\ results.role = "user"
                /\ results.content.t = "list"
                /\ Len(results.content.items) = Len(uses)
                /\ \A k \in 1..Len(uses) :
                    ~Registered(uses[k]) =>
                        results.content.items[k] =
                            PyDict(<<KV("type", PyStr("tool_result")),
                                     KV("tool_use_id", Attr(uses[k], "id")),
                                     KV("content", PyStr("Tool not found: "
                                                         \o Attr(uses[k], "name").s))>>)
                /\ Len(messages') = Len(messages) + 2
                /\ Len(db'.messages) = Len(db.messages) + 2
                /\ stored.conversation_id = conversation_id
                /\ stored.role = "user"
                /\ stored.content = serialize_content(results.content)]_vars
    /\ [][(pc = "loop" /\ AsksUnregistered /\ iteration < max_iterations /\ pc' # pc) =>
            /\ pc' = "await"
            /\ request'.messages = messages
            /\ hist'.requests = hist.requests + 1]_vars
\* the request after a response that asked for the unregistered tool "search"
\* is out, with the sentinel in its last message
C19_Witness ==
    /\ pc = "await" /\ hist.requests = 2
    /\ \E k \in 1..Len(request.messages[Len(request.messages)].content.items) :
        Attr(request.messages[Len(request.messages)].content.items[k], "content")
            = PyStr("Tool not found: search")

\* the response handled last asked for the calculator with an input that lacks
\* a field calculator.execute reads, or for the weather without a city
ToolRaises ==
    /\ hist.response.stop_reason = "tool_use"
    /\ \E b \in Range(BlocksOf(hist.response.content, "tool_use")) :
        \/ /\ Attr(b, "name") = PyStr("calculator")
           /\ calculator_execute(Attr(b, "input")).raised
        \/ /\ Attr(b, "name") = PyStr("get_weather")
           /\ weather_execute(Attr(b, "input")).raised
\* C20: when an executor raises on the input of a tool_use response, the
\* exception leaves run_agent: the call is over without a value returned.  The
\* step adds one row to the store, the assistant message with the response's
\* content, and that message alone to the working list; the user message of
\* the call is still stored; no message of tool results is stored or appended,
\* and nothing is stored once the call has raised.
C20_ExecutorRaises ==
    /\ [][(pc = "await" /\ ToolRaises') =>
            /\ pc' = "raised"
            /\ ret' = ret
            /\ messages' = Append(messages, [role |-> "assistant",
                                             content |-> hist'.response.content])
            /\ db'.messages =
                Append(db.messages,
                       [id |-> db.seq.messages + 1, conversation_id |-> conversation_id,
                        role |-> "assistant",
                        content |-> serialize_content(hist'.response.content),
                        created_at |-> now])
            /\ \E i \in 1..Len(db'.messages) :
                /\ i > Len(hist.at_call.messages)
                /\ db'.messages[i].conversation_id = conversation_id
                /\ db'.messages[i].role = "user"
                /\ db'.messages[i].content = args.user_message]_vars
    /\ [][pc = "raised" => (pc' = "idle" /\ db' = db)]_vars
\* the calculator raised on an input without operands, after get_time had run
C20_Witness ==
    /\ pc = "raised"
    /\ hist.dispatched = <<"get_time", "calculator">>
    /\ db.messages[Len(db.messages)].role = "assistant"
    /\ messages[Len(messages)].role = "assistant"

\* content or "" is empty or holds white space only
Blank(content) == \A i \in 1..Len(content) : Ch(content, i) \in PyWhitespace
\* C21: a call of save_memory with content that is empty or white space only
\* raises, hands out no id and leaves the database, the memories table with
\* it, as it was.
C21_BlankRejected ==
    [][(last'.k # last.k /\ last'.op = "save_memory" /\ Blank(last'.text)) =>
            /\ last'.raised
            /\ last'.ret = NoneId
            /\ db' = db
            /\ owner' = owner]_vars
\* the store held a memory when save_memory was called with white space, and
\* holds the same one after
C21_Witness ==
    /\ last.op = "save_memory" /\ last.text = " \t\n" /\ last.raised
    /\ Len(db.memories) = 1

\* the conversation ids handed out so far
HandedOut == {x[1] : x \in owner.conversations}
\* C22: the conversation ids handed out are 1, 2, ... with none handed out
\* twice, for whatever user and title; the id a call of create_conversation
\* returns is the id of the row it adds and is greater than every id handed
\* out and every id stored before.
C22_FreshIds ==
    /\ [](/\ HandedOut = 1..Cardinality(owner.conversations)
          /\ HandedOut = ConversationIds(db)
          /\ \A i, j \in 1..Len(db.conversations) :
                i < j => db.conversations[i].id < db.conversations[j].id)
    /\ [][(last'.k # last.k /\ last'.op = "create_conversation") =>
            /\ Len(db'.conversations) = Len(db.conversations) + 1
            /\ db'.conversations[Len(db'.conversations)].id = last'.ret
            /\ \A id \in HandedOut \cup ConversationIds(db) : last'.ret > id]_vars
\* the third conversation was created, after two of different users and with
\* different titles
C22_Witness ==
    /\ last.op = "create_conversation" /\ last.ret = 3
    /\ db.conversations[1].user_id # db.conversations[2].user_id
    /\ db.conversations[1].title # db.conversations[2].title

\* C23: a conversation's updated_at is never earlier than its created_at and
\* never goes back; a call of add_message on conversation c that returns sets
\* c's updated_at to the time of the call and leaves every other conversation
\* row as it was.  (The clock of the store does not go back.)
C23_UpdatedAt ==
    /\ [](\A i \in 1..Len(db.conversations) :
            db.conversations[i].updated_at >= db.conversations[i].created_at)
    /\ [][\A i \in 1..Len(db.conversations) :
            db'.conversations[i].updated_at >= db.conversations[i].updated_at]_vars
    /\ [][(last'.k # last.k /\ last'.op = "add_message" /\ ~last'.raised) =>
            /\ Len(db'.conversations) = Len(db.conversations)
            /\ \A i \in 1..Len(db.conversations) :
                IF db.conversations[i].id = last'.ret
                THEN db'.conversations[i] = [db.conversations[i] EXCEPT !.updated_at = now]
                ELSE db'.conversations[i] = db.conversations[i]]_vars
\* a message was added, after the clock moved, to one of two conversations
C23_Witness ==
    /\ last.op = "add_message" /\ ~last.raised /\ now = 1
    /\ \E i, j \in 1..Len(db.conversations) :
        /\ db.conversations[i].id = last.ret
        /\ db.conversations[i].created_at = 0
        /\ db.conversations[i].updated_at = 1
        /\ db.conversations[j].id # last.ret
        /\ db.conversations[j].updated_at = 0

\* keyword is in message at some place, letter case apart
ContainsWord(message, keyword) ==
    \E p \in 1..(Len(message) - Len(keyword) + 1) :
        Lower(SubSeq(message, p, p + Len(keyword) - 1)) = Lower(keyword)
\* C24: memory_budget gives (5, 1000) for a message that contains a trigger
\* keyword, in whatever letter case and at whatever length; for the others
\* (4, 800) when the message has more than 180 characters and (3, 550) when it
\* has 180 or fewer.
C24_MemoryBudget ==
    last.op = "memory_budget" =>
        memory_budget(last.text) =
            IF \E i \in 1..Len(MEMORY_TRIGGER_KEYWORDS) :
                    ContainsWord(last.text, MEMORY_TRIGGER_KEYWORDS[i])
            THEN <<5, 1000>>
            ELSE IF Len(last.text) > 180 THEN <<4, 800>>
            ELSE <<3, 550>>
\* a message of exactly 180 characters without a trigger got (3, 550)
C24_Witness ==
    /\ last.op = "memory_budget"
    /\ Len(last.text) = 180
    /\ ~ContainsWord(last.text, "recuerda") /\ ~ContainsWord(last.text, "como te dije")
    /\ memory_budget(last.text) = <<3, 550>>

\* C26: extract_memory_candidates gives the empty list for a message whose
\* normalized form (the words joined by single blanks) has fewer than 18
\* characters, and for one whose normalized form ends in "?" and does not hold
\* "recuerda que" (letter case apart), with or without a capture marker in it;
\* and no string is twice in the list it gives.
C26_NoCandidates ==
    last.op = "extract_memory_candidates" =>
        LET normalized == Normalize(last.text)
            got == extract_memory_candidates(last.text)
        IN  /\ Len(normalized) < 18 => got = <<>>
            /\ (EndsWith(normalized, "?") /\ ~ContainsWord(normalized, "recuerda que")) =>
                    got = <<>>
            /\ \A i, j \in 1..Len(got) : got[i] = got[j] => i = j
\* a question of 18 characters or more with the marker "vivo en" gave nothing
C26_Witness ==
    /\ last.op = "extract_memory_candidates"
    /\ Len(Normalize(last.text)) >= 18
    /\ EndsWith(last.text, "?")
    /\ ContainsWord(last.text, "vivo en")
    /\ extract_memory_candidates(last.text) = <<>>

\* C25: there are as many tool definitions advertised as executors
\* registered, every name advertised is a key of the registry, and
\* execute_tool does not answer "Tool not found" for a name advertised: not on
\* an empty input, and not in the results of a response that run_agent has
\* handled.
C25_RegistryConsistent ==
    /\ Len(TOOL_DEFINITIONS) = Cardinality(TOOL_EXECUTORS)
    /\ \A i \in 1..Len(TOOL_DEFINITIONS) :
        /\ \E e \in TOOL_EXECUTORS : e[1] = TOOL_DEFINITIONS[i]
        /\ execute_tool(TOOL_DEFINITIONS[i], PyDict(<<>>), now)
                # ToolOk("Tool not found: " \o TOOL_DEFINITIONS[i])
    /\ (pc = "loop" /\ hist.response.stop_reason = "tool_use") =>
        LET uses == BlocksOf(hist.response.content, "tool_use")
            results == messages[Len(messages)].content.items
        IN  \A k \in 1..Len(uses) :
                Attr(uses[k], "name").s \in Range(TOOL_DEFINITIONS) =>
                    Attr(results[k], "content")
                        # PyStr("Tool not found: " \o Attr(uses[k], "name").s)
\* run_agent has the results of a response that asked for get_weather
C25_Witness ==
    /\ pc = "loop" /\ hist.response.stop_reason = "tool_use"
    /\ hist.dispatched # <<>> /\ hist.dispatched[1] = "get_weather"
    /\ "get_weather" \in Range(TOOL_DEFINITIONS)
    /\ Attr(messages[Len(messages)].content.items[1], "tool_use_id")
            = Attr(BlocksOf(hist.response.content, "tool_use")[1], "id")

\* the memory rows of a user, in the order of the table
MemoriesOf(d, user_id) ==
    LET Mine(r) == r.user_id = user_id
    IN  SelectSeq(d.memories, Mine)
\* C27: a call of clear_memories(U) returns the number of memories U had when
\* it was made and leaves U none (list_memories(U) is empty); the memories of
\* every other user, the conversations and the messages are as before.
C27_ClearMemories ==
    [][(last'.k # last.k /\ last'.op = "clear_memories") =>
            /\ last'.ret = Len(MemoriesOf(db, last'.user))
            /\ MemoriesOf(db', last'.user) = <<>>
            /\ list_memories(db', last'.user, DEFAULT_LIMIT) = <<>>
            /\ \A u \in Users \ {last'.user} : MemoriesOf(db', u) = MemoriesOf(db, u)
            /\ Len(db'.memories) = Len(db.memories) - last'.ret
            /\ db'.conversations = db.conversations
            /\ db'.messages = db.messages]_vars
\* a user's only memory was cleared and the other user's is still there
C27_Witness ==
    /\ last.op = "clear_memories" /\ last.ret = 1
    /\ Len(db.memories) = 1
    /\ db.memories[1].user_id # last.user

\* score = 10 x (query keywords contained) + confidence, in tenths as the
\* confidences are
ClaimedScore(row, words) ==
    (100 * Cardinality({k \in 1..Len(words) : ContainsWord(row.content, words[k])}))
        + row.confidence
\* a is considered before b: by score, then by recency; rows equal in both
\* are taken in the order of their ids
ConsideredBefore(a, b, words) ==
    \/ ClaimedScore(a, words) > ClaimedScore(b, words)
    \/ /\ ClaimedScore(a, words) = ClaimedScore(b, words)
       /\ \/ a.updated_at > b.updated_at
          \/ a.updated_at = b.updated_at /\ a.id < b.id
\* C28: what get_relevant_memories returns is fixed by its arguments and the
\* store.  The memories returned are the user's, in descending order of score
\* and, for equal scores, most recently updated first.  A memory of the user
\* that is not returned either has no score when the query has keywords, or
\* came after max_items were selected, or would have taken the characters
\* selected before it over max_chars; so a memory over the budget is passed
\* over and the ones after it are still considered.
C28_RetrievalOrder ==
    last.op = "get_relevant_memories" =>
        LET words == QueryWords(last.text)
            rows == MemoriesOf(db, last.user)
            got == Retrieved
            RowOf(text) == CHOOSE r \in Range(rows) : r.content = text
        IN  /\ \A i \in 1..Len(got) : \E r \in Range(rows) : r.content = got[i]
            /\ \A i, j \in 1..Len(got) :
                i < j => ConsideredBefore(RowOf(got[i]), RowOf(got[j]), words)
            /\ \A r \in Range(rows) :
                (\A i \in 1..Len(got) : got[i] # r.content) =>
                    LET before == {i \in 1..Len(got) : ConsideredBefore(RowOf(got[i]), r, words)}
                    IN  \/ words # <<>> /\ ClaimedScore(r, words) <= 0
                        \/ Cardinality(before) >= last.num
                        \/ TotalLen(SubSeq(got, 1, Cardinality(before)), 1) + Len(r.content)
                                > last.ret
\* the memory considered first was over the budget and the one after it was
\* returned; the two had the same score and the first was the later one
C28_Witness ==
    /\ last.op = "get_relevant_memories" /\ last.ret = 9 /\ last.text = ""
    /\ Retrieved = <<"Uso macOS">>
    /\ \E r, q \in Range(MemoriesOf(db, last.user)) :
        /\ r.content = "Vivo en Madrid" /\ q.content = "Uso macOS"
        /\ r.confidence = q.confidence
        /\ r.updated_at > q.updated_at

\* the tool call identifiers of a message, in the order of its blocks: the id
\* of a tool_use block, the tool_use_id of a tool_result block
CallIds(message) ==
    IF message.content.t # "list" THEN <<>>
    ELSE LET Names(b) == IsBlock(b, "tool_use") \/ IsBlock(b, "tool_result")
             blocks == SelectSeq(message.content.items, Names)
         IN  [k \in 1..Len(blocks) |->
                IF IsBlock(blocks[k], "tool_use") THEN Attr(blocks[k], "id")
                ELSE Attr(blocks[k], "tool_use_id")]
\* the working list and the stored list are of one length, with the same
\* roles and the same tool call identifiers, message by message
Mirrors(working, stored) ==
    /\ Len(working) = Len(stored)
    /\ \A i \in 1..Len(working) :
        /\ working[i].role = stored[i].role
        /\ CallIds(working[i]) = CallIds(stored[i])
\* C29: whenever a request is out to the LLM and whenever run_agent has
\* returned, the working list mirrors what get_messages gives for the
\* conversation of the call.
C29_WorkingMirrorsStore ==
    /\ pc = "await" => Mirrors(request.messages, get_messages(db, conversation_id))
    /\ pc = "returned" => Mirrors(messages, get_messages(db, conversation_id))

\* every assistant message of ms with tool_use blocks is followed by a user
\* message whose tool_result blocks answer them one to one, in their order
Answered(ms) ==
    \A i \in 1..Len(ms) :
        (ms[i].role = "assistant" /\ BlocksOf(ms[i].content, "tool_use") # <<>>) =>
            /\ i < Len(ms)
            /\ ms[i + 1].role = "user"
            /\ LET uses == BlocksOf(ms[i].content, "tool_use")
                   results == BlocksOf(ms[i + 1].content, "tool_result")
               IN  /\ Len(results) = Len(uses)
                   /\ \A k \in 1..Len(uses) :
                        Attr(results[k], "tool_use_id") = Attr(uses[k], "id")
\* C30: when no call of run_agent is in progress, and when one has returned
\* or raised, every tool call in the stored history of every conversation is
\* answered.
C30_CallsAnswered ==
    pc \in {"idle", "returned", "raised"} =>
        \A c \in ConversationIds(db) : Answered(get_messages(db, c))

\* a request goes out that is not the first of its call
NextRequest == pc = "loop" /\ pc' = "await" /\ iteration >= 1
\* the memories retrieved in store d for the call in progress
RetrievedFor(d) ==
    get_relevant_memories(d, args.user_id, args.user_message,
                          memory_budget(args.user_message)[1],
                          memory_budget(args.user_message)[2])
\* C31: from the loop of a call on, no step of the call changes the memories
\* table or the call's arguments; and a request that is not the first of its
\* call retrieves the memories the request before it retrieved and carries
\* the same system prompt, the one built from the call's system prompt and
\* the memories retrieved for the original user message.
C31_SameMemoryContext ==
    /\ [][(pc \in {"loop", "await"} /\ pc' # "idle") =>
            /\ db'.memories = db.memories
            /\ args' = args]_vars
    /\ [][NextRequest =>
            /\ RetrievedFor(db) = RetrievedFor(hist.at_request)
            /\ request'.system = request.system
            /\ request'.system =
                 build_system_prompt_with_memory(args.system_prompt, RetrievedFor(db))]_vars
\* the second request of a call is out, after a round of tools and with the
\* clock moved since the call began, and its system prompt carries a memory
C31_Witness ==
    /\ pc = "await" /\ iteration = 2 /\ now = 1
    /\ hist.at_call.memories # <<>>
    /\ RetrievedFor(db) # <<>>
    /\ request.system # args.system_prompt

\* add_message was called with an id that no conversation of the store has
AddToMissing ==
    /\ last'.k # last.k
    /\ last'.op = "add_message"
    /\ last'.ret \notin ConversationIds(db)
\* C32: every stored message names a conversation of the store, and one
\* only; add_message with an id that no conversation has raises and leaves
\* the messages and the conversations, their updated_at with them, as they
\* were.
C32_MessagesBelong ==
    /\ [](\A i \in 1..Len(db.messages) :
            Cardinality({j \in 1..Len(db.conversations) :
                            db.conversations[j].id = db.messages[i].conversation_id}) = 1)
    /\ [][AddToMissing =>
            /\ last'.raised
            /\ db'.messages = db.messages
            /\ db'.conversations = db.conversations]_vars
\* add_message has just failed on an id the store does not have, at a time
\* later than the one its conversations and messages were written at
C32_Witness ==
    /\ last.op = "add_message" /\ last.raised
    /\ last.ret \notin ConversationIds(db)
    /\ db.conversations # <<>> /\ db.messages # <<>>
    /\ now > db.conversations[1].updated_at

\* a call of save_memory returned an id for a pair the store had already
DuplicateSave == SaveStep /\ HasPair(db, last'.user, Strip(last'.text))
\* C33: a save_memory of a pair that is stored already adds and removes no
\* row and leaves every row as it was but for the confidence and updated_at
\* of the pair's row: its id, user, content, created_at and source stay what
\* the first save made them.  No call of save_memory lowers the confidence of
\* a row.
C33_DuplicateSave ==
    /\ [][DuplicateSave =>
            /\ Len(db'.memories) = Len(db.memories)
            /\ \A i \in 1..Len(db.memories) :
                IF db.memories[i].user_id = last'.user
                    /\ db.memories[i].content = Strip(last'.text)
                THEN db'.memories[i] =
                        [db.memories[i] EXCEPT
                            !.confidence = db'.memories[i].confidence,
                            !.updated_at = db'.memories[i].updated_at]
                ELSE db'.memories[i] = db.memories[i]]_vars
    /\ [][(last'.k # last.k /\ last'.op = "save_memory") =>
            /\ Len(db'.memories) >= Len(db.memories)
            /\ \A i \in 1..Len(db.memories) :
                /\ db'.memories[i].id = db.memories[i].id
                /\ db'.memories[i].confidence >= db.memories[i].confidence]_vars
\* a pair first saved without a conversation has just been saved again, later,
\* naming a conversation and with blanks around the text: the row has the new
\* time, and the source and created_at of the first save
C33_Witness ==
    /\ last.op = "save_memory" /\ ~last.raised
    /\ db.conversations # <<>>
    /\ \E i \in 1..Len(db.memories) :
        /\ db.memories[i].id = last.ret
        /\ db.memories[i].source_conversation_id = NoneId
        /\ db.memories[i].created_at < db.memories[i].updated_at
        /\ db.memories[i].confidence = DEFAULT_CONFIDENCE
        /\ last.num = DEFAULT_CONFIDENCE
        /\ last.text # db.memories[i].content

\* the calls of two connections have returned ids for the same user and content
SamePairSaved(a, b) ==
    /\ conn[a].pc = "done" /\ ~conn[a].raised
    /\ conn[b].pc = "done" /\ ~conn[b].raised
    /\ conn[a].user_id = conn[b].user_id
    /\ conn[a].content = conn[b].content
\* C34: with calls of save_memory running side by side, statement by
\* statement, there is never more than one memory row for a user and content,
\* and two calls for the same user and content return the same id.
C34_ConcurrentDedup ==
    /\ OneRowPerPair
    /\ \A a, b \in Connections : SamePairSaved(a, b) => conn[a].ret = conn[b].ret

\* the roles and contents of the rows of conversation c, in their order
StoredSequence(c) ==
    Only({[i \in 1..Len(rows) |-> [role |-> rows[i].role, content |-> rows[i].content]]
          : rows \in {MessagesOf(db, c)}})
\* C35: with calls of run_agent running side by side on conversations of
\* their own, the rows of each call's conversation are, in their order, what
\* that call handed to add_message, and two calls never have the same
\* conversation.
C35_OwnHistory ==
    /\ \A p \in Turns :
        turn[p].pc # "idle" => StoredSequence(turn[p].conversation_id) = List(turn[p].added)
    /\ \A p, q \in Turns :
        (p # q /\ turn[p].pc # "idle" /\ turn[q].pc # "idle") =>
            turn[p].conversation_id # turn[q].conversation_id
\* both calls have stored a round of tools, the second to begin being the
\* first to store its user message and the last to store its results
C35_Witness ==
    \E p, q \in Turns :
        /\ turn[p].conversation_id < turn[q].conversation_id
        /\ Len(turn[p].added) >= 3 /\ Len(turn[q].added) >= 3
        /\ turn[p].user_message # turn[q].user_message
        /\ LET mp == MessagesOf(db, turn[p].conversation_id)
               mq == MessagesOf(db, turn[q].conversation_id)
           IN  /\ mq[1].id < mp[1].id
               /\ mp[2].id < mq[2].id
               /\ mp[3].id < mq[3].id

====
